---------------------------- MODULE Spec2Model ----------------------------
(***************************************************************************)
(* Model of ThirdTube's network stream cache, downloader thread and the    *)
(* blocking reader callbacks.                                              *)
(*   NetworkStream, NetworkStreamDownloader : src/unnamed/part_000         *)
(*   read_network_stream, seek_network_stream :                            *)
(*                       src/source/network/network_decoder.cpp           *)
(* Bytes are small naturals; all sizes are scaled down.                    *)
(***************************************************************************)
EXTENDS Integers, Sequences, FiniteSets, TLC

\* ------------------------------------------------------------------
\* Compile-time constants of NetworkStream (set in network_downloader.hpp,
\* scaled down here) and the bounds of the model.
\* ------------------------------------------------------------------
BLOCK_SIZE == 2
MAX_CACHE_BLOCKS == 2
MAX_FORWARD_READ_BLOCKS == 2
\* number of stream objects that may be created
NStreams == 2
\* length in bytes of the longest resource a stream has in the direct calls
\* of the cache operations: two blocks more than the cache holds, the last short
MaxLen == (MAX_CACHE_BLOCKS + 2) * BLOCK_SIZE - 1
\* largest buf_size the decoder passes to read_network_stream
MaxBuf == 3
\* the direct calls of set_data choose among 1 + MaxVersion contents per block
MaxVersion == 1
\* u64 arithmetic wraps modulo U64 (2^64 in the program, scaled down)
U64 == 4096

Streams == 1..NStreams
NULL == 0

Min(S) == CHOOSE x \in S : \A y \in S : x <= y
Max(S) == CHOOSE x \in S : \A y \in S : x >= y
MinOf(a, b) == IF a <= b THEN a ELSE b
MaxOf(a, b) == IF a >= b THEN a ELSE b
\* conversion of a (possibly negative or too large) value to u64
ToU64(x) == x % U64
\* (len + BLOCK_SIZE - 1) / BLOCK_SIZE
BlockNum(l) == (l + BLOCK_SIZE - 1) \div BLOCK_SIZE

\* ------------------------------------------------------------------
\* The HTTP origin: stream s names a resource of ResLen(s) bytes, byte p of
\* which is OriginByte(s, p).
\* ------------------------------------------------------------------
\* (one block more than the cache holds, the last one short)
ResLen(s) == (MAX_CACHE_BLOCKS + 1) * BLOCK_SIZE - 1
OriginByte(s, p) == 10 * s + p
\* the bytes [from, to) of the resource
OriginRange(s, from, to) == [k \in 1..(to - from) |-> OriginByte(s, from + k - 1)]


VARIABLES
    stream,                 \* [Streams -> the fields of one NetworkStream object]
    streams,                \* NetworkStreamDownloader::streams, the slot vector
    thread_exit_requested,  \* NetworkStreamDownloader::thread_exit_reqeusted
    dl,                     \* downloader_thread: position and locals
    rd,                     \* [Streams -> the reader callback running on the stream]
    dec,                    \* NetworkDecoder: interrupt, need_reinit
    cpu_limit,              \* add_cpu_limit(25) calls minus remove_cpu_limit(25) calls
    env,                    \* what the environment may do (fixed by Init): the faults
                            \* of the origin, the streams that are added (users), read
                            \* and sought (readers), suspended and closed (closers),
                            \* and which histories are kept (record)
    last_set,               \* history: the latest set_data call of the current tick
    ut,                     \* history: the latest direct call of a cache operation
                            \* (call, b), the blocks requested from the origin (order)
    lock                    \* streams_lock, downloaded_data_lock and where each thread
                            \* is in its locking (used by the lock-level specification)

vars == <<stream, streams, thread_exit_requested, dl, rd, dec, cpu_limit, env, last_set, ut,
          lock>>

\* ------------------------------------------------------------------
\* NetworkStream
\* ------------------------------------------------------------------
\* std::map<u64, std::vector<u8>>: a function from its key set to byte sequences
EmptyMap == [k \in {} |-> <<>>]
MapPut(dd, block, data) == [k \in (DOMAIN dd) \cup {block} |-> IF k = block THEN data ELSE dd[k]]
MapErase(dd, block) == [k \in (DOMAIN dd) \ {block} |-> dd[k]]

\* a NetworkStream as constructed (field initialisers of network_downloader.hpp)
NewStream(whole) ==
    [ whole_download |-> whole, read_head |-> 0, len |-> 0, block_num |-> 0,
      ready |-> FALSE, error |-> FALSE, quit_request |-> FALSE, suspend_request |-> FALSE,
      livestream_eof |-> FALSE, livestream_private |-> FALSE,
      seq_head |-> -1, seq_id |-> -1, disable_interrupt |-> FALSE,
      downloaded_data |-> EmptyMap, freed |-> FALSE ]

\* the loop of is_data_available: false at the first block that is not resident
RECURSIVE AvailLoop(_, _, _)
AvailLoop(dd, block, end_block) ==
    IF block > end_block THEN TRUE
    ELSE IF block \notin DOMAIN dd THEN FALSE
    ELSE AvailLoop(dd, block + 1, end_block)

is_data_available(st, start, size) ==
    IF ~st.ready THEN FALSE
    ELSE IF ToU64(start + size) > st.len THEN FALSE
    ELSE LET end == ToU64(start + size - 1)
             start_block == start \div BLOCK_SIZE
             end_block == end \div BLOCK_SIZE
         IN  AvailLoop(st.downloaded_data, start_block, end_block)

\* the loop of get_data. status "assert": one of its assertions fails (the block
\* is not resident); "oob": the slice reads past the end of the block's vector.
RECURSIVE GetLoop(_, _, _, _, _, _)
GetLoop(dd, start, end, block, end_block, res) ==
    IF block > end_block THEN [status |-> "ok", data |-> res]
    ELSE IF block \notin DOMAIN dd THEN [status |-> "assert", data |-> res]
    ELSE LET cur_l == MaxOf(start, block * BLOCK_SIZE) - block * BLOCK_SIZE
             cur_r == MinOf(end + 1, (block + 1) * BLOCK_SIZE) - block * BLOCK_SIZE
         IN  IF cur_r > Len(dd[block]) THEN [status |-> "oob", data |-> res]
             ELSE GetLoop(dd, start, end, block + 1, end_block,
                          res \o SubSeq(dd[block], cur_l + 1, cur_r))

\* get_data with `end = start + size` (the - 1 forgotten)
get_data_EndOffByOne(st, start, size) ==
    IF ~st.ready THEN [status |-> "ok", data |-> <<>>]
    ELSE IF size = 0 THEN [status |-> "ok", data |-> <<>>]
    ELSE LET end == ToU64(start + size)
             start_block == start \div BLOCK_SIZE
             end_block == end \div BLOCK_SIZE
         IN  GetLoop(st.downloaded_data, start, end, start_block, end_block, <<>>)

get_data(st, start, size) ==
    IF ~st.ready THEN [status |-> "ok", data |-> <<>>]
    ELSE IF size = 0 THEN [status |-> "ok", data |-> <<>>]
    ELSE LET end == ToU64(start + size - 1)
             start_block == start \div BLOCK_SIZE
             end_block == end \div BLOCK_SIZE
         IN  GetLoop(st.downloaded_data, start, end, start_block, end_block, <<>>)

\* EvictKey with `<=` for `<`: the cursor block itself counts as stale
EvictKey_CursorStale(dd1, read_head) ==
    LET read_head_block == read_head \div BLOCK_SIZE
        begin == Min(DOMAIN dd1)
    IN  IF begin <= read_head_block THEN begin ELSE Max(DOMAIN dd1)

\* the key set_data erases from the map dd1 that already holds the new block
EvictKey(dd1, read_head) ==
    LET read_head_block == read_head \div BLOCK_SIZE
        begin == Min(DOMAIN dd1)
    IN  IF begin < read_head_block THEN begin ELSE Max(DOMAIN dd1)

\* set_data with `>=` for `>` in the size test: it evicts one insertion early
set_data_EvictEarly(st, block, data) ==
    LET dd1 == MapPut(st.downloaded_data, block, data)
    IN  IF Cardinality(DOMAIN dd1) >= MAX_CACHE_BLOCKS
        THEN MapErase(dd1, EvictKey(dd1, st.read_head))
        ELSE dd1

\* downloaded_data after set_data(block, data)
set_data(st, block, data) ==
    LET dd1 == MapPut(st.downloaded_data, block, data)
    IN  IF Cardinality(DOMAIN dd1) > MAX_CACHE_BLOCKS
        THEN MapErase(dd1, EvictKey(dd1, st.read_head))
        ELSE dd1

\* what last_set records of a set_data call on stream s
SetRecord(s, st, block, data) ==
    [ s |-> s, block |-> block, data |-> data, read_head |-> st.read_head,
      pre |-> DOMAIN st.downloaded_data, post |-> DOMAIN set_data(st, block, data) ]
NoSet == [ s |-> NULL ]

\* ------------------------------------------------------------------
\* The cache operations of one NetworkStream called directly, in any order,
\* on a ready stream (the way the downloader and the reader call them).
\* ------------------------------------------------------------------
NoCall == [ op |-> "none" ]
\* no call made, no block stored, no block requested
UtInit == [ call |-> NoCall, b |-> EmptyMap, order |-> <<>> ]
\* version v of the content of a block of n bytes: every byte names its version
\* and its position in the resource
Content(block, v, n) == [j \in 1..n |-> 100 * v + block * BLOCK_SIZE + j - 1]
\* the length of block `block` of a resource of l bytes
BlockLen(l, block) == MinOf((block + 1) * BLOCK_SIZE, l) - block * BLOCK_SIZE

\* the downloader at the top of its loop
DlIdle ==
    [ pc |-> "loop", cur_stream_index |-> NULL, cur_stream |-> NULL, read_head |-> 0,
      block_reading |-> 0, start |-> 0, expected_len |-> 0, body |-> <<>>, i |-> 0,
      end |-> 0 ]
\* no callback running on the stream
RdIdle ==
    [ pc |-> "idle", added |-> FALSE, buf_size |-> 0, cpu_limited |-> FALSE,
      ret |-> "none", val |-> 0, data |-> <<>> ]
DecInit == [ interrupt |-> FALSE, need_reinit |-> FALSE ]
\* the threads that take the locks: the downloader thread, the thread in the
\* reader callbacks, the thread that calls add_stream, and a thread that
\* calls get_download_percentage or get_buffering_progress_bar
Threads == {"downloader", "reader", "adder", "observer"}
\* both mutexes as svcCreateMutex(.., false) leaves them, no thread in an
\* operation
LockInit ==
    [ streams_lock |-> "free", downloaded_data_lock |-> "free",
      pc |-> [t \in Threads |-> IF t = "downloader" THEN "loop" ELSE "idle"] ]

InitCache ==
    /\ \E l \in 1..MaxLen :
          stream = [s \in Streams |->
                      IF s = 1
                      THEN [NewStream(FALSE) EXCEPT !.len = l, !.block_num = BlockNum(l),
                                                     !.ready = TRUE]
                      ELSE NewStream(FALSE)]
    /\ streams = <<>>
    /\ thread_exit_requested = FALSE
    /\ dl = DlIdle
    /\ rd = [s \in Streams |-> RdIdle]
    /\ dec = DecInit
    /\ cpu_limit = 0
    /\ env = [ faults |-> {}, users |-> {1}, readers |-> {1}, closers |-> {1}, record |-> {} ]
    /\ last_set = NoSet
    /\ ut = UtInit
    /\ lock = LockInit

Unit_others == UNCHANGED <<streams, thread_exit_requested, dl, rd, dec, cpu_limit, env, lock>>

\* set_data(block, data) with a block of the resource
Unit_set_data ==
    \E block \in 0..(stream[1].block_num - 1) :
      \E v \in 0..MaxVersion :
        LET data == Content(block, v, BlockLen(stream[1].len, block))
        IN  /\ stream' = [stream EXCEPT ![1].downloaded_data = set_data(stream[1], block, data)]
            /\ last_set' = SetRecord(1, stream[1], block, data)
            /\ ut' = [ut EXCEPT !.call = NoCall, !.b = MapPut(ut.b, block, data)]
            /\ Unit_others

\* the reader moves read_head (read_network_stream, seek_network_stream)
Unit_read_head ==
    \E x \in 0..stream[1].len :
        /\ x # stream[1].read_head
        /\ stream' = [stream EXCEPT ![1].read_head = x]
        /\ ut' = [ut EXCEPT !.call = NoCall]
        /\ last_set' = NoSet
        /\ Unit_others

\* get_data is called on a range is_data_available has reported available
Unit_get_data ==
    \E start \in 0..MaxLen, size \in 0..MaxLen :
        /\ is_data_available(stream[1], start, size)
        /\ ut' = [ut EXCEPT !.call = [op |-> "get_data", start |-> start, size |-> size,
                                      res |-> get_data(stream[1], start, size)]]
        /\ last_set' = NoSet
        /\ UNCHANGED stream
        /\ Unit_others

NextCache ==
    \/ Unit_set_data
    \/ Unit_read_head
    \/ Unit_get_data

SpecCache == InitCache /\ [][NextCache]_vars

\* get_download_percentage: (double) downloaded_data.size() * BLOCK_SIZE / len
\* * 100, the double as the fraction num / den
get_download_percentage(st) ==
    [num |-> Cardinality(DOMAIN st.downloaded_data) * BLOCK_SIZE * 100, den |-> st.len]

\* an observer asks for the download percentage
Unit_get_download_percentage ==
    /\ ut' = [ut EXCEPT !.call = [op |-> "get_download_percentage",
                                  res |-> get_download_percentage(stream[1])]]
    /\ last_set' = NoSet
    /\ UNCHANGED stream
    /\ Unit_others

NextObserve ==
    \/ Unit_set_data
    \/ Unit_read_head
    \/ Unit_get_download_percentage

SpecObserve == InitCache /\ [][NextObserve]_vars

\* ------------------------------------------------------------------
\* NetworkStreamDownloader
\* ------------------------------------------------------------------
Slots == 1..Len(streams)
InSlot(s) == \E i \in Slots : streams[i] = s
\* add_stream_slots that appends whether or not a slot is NULL
add_stream_slots_AlwaysAppends(sl, s) == Append(sl, s)
\* add_stream: the first NULL slot, or a new slot at the end
add_stream_slots(sl, s) ==
    IF \E i \in 1..Len(sl) : sl[i] = NULL
    THEN LET index == Min({i \in 1..Len(sl) : sl[i] = NULL})
         IN  [sl EXCEPT ![index] = s]
    ELSE Append(sl, s)

add_stream(s) ==
    /\ s \in env.users
    /\ ~InSlot(s)
    /\ ~stream[s].freed
    /\ ~rd[s].added
    /\ streams' = add_stream_slots(streams, s)
    /\ rd' = [rd EXCEPT ![s].added = TRUE]
    /\ UNCHANGED <<stream, thread_exit_requested, dl, dec, cpu_limit, env, last_set, ut, lock>>

\* the scan of the selection pass for the first block at or after the cursor
\* block that is not downloaded, stopped at the end of the forward window
RECURSIVE FirstNotDownloaded(_, _, _)
FirstNotDownloaded(st, read_head_block, b) ==
    IF b < st.block_num /\ b \in DOMAIN st.downloaded_data
    THEN IF b + 1 = read_head_block + MAX_FORWARD_READ_BLOCKS
         THEN b + 1
         ELSE FirstNotDownloaded(st, read_head_block, b + 1)
    ELSE b

\* margin_percentage of a candidate, as the fraction num / den of 100 percent
Margin(st, read_head, first_not_downloaded_block) ==
    IF first_not_downloaded_block = read_head \div BLOCK_SIZE
    THEN [num |-> 0, den |-> 1]
    ELSE [num |-> ToU64(first_not_downloaded_block * BLOCK_SIZE - read_head), den |-> st.len]
\* MarginGreater with >= for >: a later stream of equal margin wins
MarginGreater_OrEqual(a, b) == a.num * b.den >= b.num * a.den
\* a > b for two such fractions
MarginGreater(a, b) == a.num * b.den > b.num * a.den
\* margin_percentage_min = 1000
MarginInit == [num |-> 10, den |-> 1]

\* NeedsDownload without the test for the end of the forward window
NeedsDownload_NoWindowTest(st, read_head) ==
    LET read_head_block == read_head \div BLOCK_SIZE
        first == FirstNotDownloaded(st, read_head_block, read_head_block)
    IN  first # st.block_num

\* NeedsDownload without the test for the end of the resource
NeedsDownload_NoEndTest(st, read_head) ==
    LET read_head_block == read_head \div BLOCK_SIZE
        first == FirstNotDownloaded(st, read_head_block, read_head_block)
    IN  first # read_head_block + MAX_FORWARD_READ_BLOCKS

\* whether the selection pass takes stream st, ready and ranged, as a candidate
NeedsDownload(st, read_head) ==
    LET read_head_block == read_head \div BLOCK_SIZE
        first == FirstNotDownloaded(st, read_head_block, read_head_block)
    IN  /\ first # st.block_num
        /\ first # read_head_block + MAX_FORWARD_READ_BLOCKS

\* Skipped without the test of error
Skipped_ErrorIgnored(st) == st.suspend_request
\* Skipped without the test of suspend_request
Skipped_SuspendIgnored(st) == st.error
\* the two `continue`s of the selection loop on a stream's flags
Skipped(st) == st.error \/ st.suspend_request

\* Reaps that spares a stream in error
Reaps_UnlessError(st) == st.quit_request /\ ~st.error
\* `if (streams[i]->quit_request)`: the selection loop deletes the stream
Reaps(st) == st.quit_request

\* The selection loop from slot i on. acc.cur is cur_stream_index (NULL for
\* (size_t) -1), acc.min is margin_percentage_min, acc.reaped the slots whose
\* stream the loop has deleted.
RECURSIVE SelectLoop(_, _, _, _)
SelectLoop(sl, sts, read_heads, acc) ==
    LET i == acc.i
    IN  IF i > Len(sl) THEN acc
        ELSE LET next == [acc EXCEPT !.i = i + 1]
             IN  IF sl[i] = NULL THEN SelectLoop(sl, sts, read_heads, next)
                 ELSE LET st == sts[sl[i]]
                      IN  IF Reaps(st)
                          THEN SelectLoop(sl, sts, read_heads,
                                          [next EXCEPT !.reaped = acc.reaped \cup {i}])
                          ELSE IF Skipped(st) THEN SelectLoop(sl, sts, read_heads, next)
                          ELSE IF ~st.ready THEN [acc EXCEPT !.cur = i]
                          ELSE IF st.whole_download THEN SelectLoop(sl, sts, read_heads, next)
                          ELSE IF ~NeedsDownload(st, read_heads[i])
                               THEN SelectLoop(sl, sts, read_heads, next)
                          ELSE LET read_head_block == read_heads[i] \div BLOCK_SIZE
                                   first == FirstNotDownloaded(st, read_head_block, read_head_block)
                                   margin == Margin(st, read_heads[i], first)
                               IN  IF MarginGreater(acc.min, margin)
                                   THEN SelectLoop(sl, sts, read_heads,
                                                   [next EXCEPT !.min = margin, !.cur = i])
                                   ELSE SelectLoop(sl, sts, read_heads, next)

Select(sl, sts, read_heads) ==
    SelectLoop(sl, sts, read_heads, [i |-> 1, cur |-> NULL, min |-> MarginInit, reaped |-> {}])

\* the block the fetch phase of a ranged stream asks for: the cursor block of
\* the snapshot, moved past the downloaded blocks when the stream is ready
RECURSIVE SkipDownloaded(_, _)
SkipDownloaded(st, b) ==
    IF b < st.block_num /\ b \in DOMAIN st.downloaded_data
    THEN SkipDownloaded(st, b + 1)
    ELSE b
\* BlockReading without the loop past the downloaded blocks
BlockReading_CursorBlock(st, read_head) == read_head \div BLOCK_SIZE
BlockReading(st, read_head) ==
    IF st.ready THEN SkipDownloaded(st, read_head \div BLOCK_SIZE) ELSE read_head \div BLOCK_SIZE

dl_others == UNCHANGED <<rd, dec, cpu_limit, env, lock>>

\* history, kept when env.record has "order": the blocks the ranged
\* requests have asked for, in the order of the requests
Requested(order, block_reading) ==
    IF "order" \in env.record THEN Append(order, block_reading) ELSE order

\* vector<u64> read_heads: the backup of the read_heads taken under streams_lock
ReadHeads == [i \in Slots |-> IF streams[i] # NULL THEN stream[streams[i]].read_head ELSE 0]

\* the downloader finds thread_exit_reqeusted set and leaves its loop; the
\* loop over the slots that follows takes begin() and end() of the vector
\* once, here, and holds no mutex
dl_exit ==
    /\ dl.pc = "loop"
    /\ thread_exit_requested
    /\ dl' = [DlIdle EXCEPT !.pc = "exiting", !.i = 1, !.end = Len(streams)]
    /\ UNCHANGED <<stream, streams, thread_exit_requested, last_set, ut>>
    /\ dl_others

\* one turn of `for (auto stream : streams) if (stream) stream->quit_request
\* = true`, and the return of downloader_thread after the last one
dl_exit_mark ==
    /\ dl.pc = "exiting"
    /\ IF dl.i > dl.end
       THEN /\ dl' = [DlIdle EXCEPT !.pc = "exited"]
            /\ UNCHANGED stream
       ELSE /\ dl' = [dl EXCEPT !.i = dl.i + 1]
            /\ stream' = IF streams[dl.i] # NULL
                         THEN [stream EXCEPT ![streams[dl.i]].quit_request = TRUE]
                         ELSE stream
    /\ UNCHANGED <<streams, thread_exit_requested, last_set, ut>>
    /\ dl_others

\* One pass under streams_lock: the backup of the read_heads and the selection
\* loop; then, the lock released, for a ranged stream the choice of the block
\* to request, up to the call of Access_http_get. The pass reads no read_head
\* but its backup, and the fields it reads after the lock is released are
\* written by this thread alone, so the steps of other threads in between
\* commute with it.
dl_select ==
    /\ dl.pc = "loop"
    /\ ~thread_exit_requested
    /\ LET read_heads == ReadHeads
           sel == Select(streams, stream, read_heads)
           reaped == {streams[i] : i \in sel.reaped}
           cur_stream == IF sel.cur = NULL THEN NULL ELSE streams[sel.cur]
           st == stream[cur_stream]
           block_reading == BlockReading(st, read_heads[sel.cur])
           start == block_reading * BLOCK_SIZE
           end == IF st.ready THEN MinOf((block_reading + 1) * BLOCK_SIZE, st.len)
                  ELSE (block_reading + 1) * BLOCK_SIZE
           freed == [s \in Streams |->
                       IF s \in reaped THEN [stream[s] EXCEPT !.freed = TRUE] ELSE stream[s]]
       IN  /\ streams' = [i \in Slots |-> IF i \in sel.reaped THEN NULL ELSE streams[i]]
           /\ IF sel.cur = NULL
              THEN /\ dl' = DlIdle
                   /\ stream' = freed
              ELSE IF st.whole_download
              THEN /\ dl' = [DlIdle EXCEPT !.pc = "http", !.cur_stream_index = sel.cur,
                                           !.cur_stream = cur_stream,
                                           !.read_head = read_heads[sel.cur]]
                   /\ stream' = freed
              ELSE IF st.ready /\ block_reading = st.block_num
              THEN /\ dl' = DlIdle
                   /\ stream' = [freed EXCEPT ![cur_stream].error = TRUE]
              ELSE /\ dl' = [DlIdle EXCEPT !.pc = "http", !.cur_stream_index = sel.cur,
                                           !.cur_stream = cur_stream,
                                           !.read_head = read_heads[sel.cur],
                                           !.block_reading = block_reading,
                                           !.start = start, !.expected_len = end - start]
                   /\ stream' = freed
    /\ last_set' = NoSet
    /\ ut' = [ut EXCEPT !.call = NoCall,
                        !.order = IF dl'.pc = "http" /\ ~stream[dl'.cur_stream].whole_download
                                  THEN Requested(ut.order, dl'.block_reading)
                                  ELSE ut.order]
    /\ UNCHANGED thread_exit_requested
    /\ dl_others

\* What Access_http_get can return. A sound origin answers every request
\* with the bytes asked for and the headers the downloader reads. env.faults
\* names what else may happen: "fail" (the request fails, or the status is
\* not a success), "header" (a header is left out or garbled), "body" (the
\* body has another length).
HTTP_STATUS_CODE_OK == 200
HTTP_STATUS_CODE_NO_CONTENT == 204
HTTP_STATUS_CODE_FORBIDDEN == 403
HTTP_STATUS_CODE_NOT_FOUND == 404
HTTP_STATUS_CODE_OTHER == 500
JunkByte == 99

\* the body of a ranged answer for bytes [start, start + n) of stream s
RangedBody(s, start, n, shape) ==
    LET to == MinOf(start + n, ResLen(s))
        exact == IF to > start THEN OriginRange(s, start, to) ELSE <<>>
    IN  CASE shape = "exact" -> exact
          [] shape = "short" -> IF Len(exact) > 0 THEN SubSeq(exact, 1, Len(exact) - 1) ELSE exact
          [] shape = "long" -> Append(exact, JunkByte)

\* Content-Range as the downloader parses it: whether it holds a '/', the
\* value strtoll reads after it, and whether characters follow the digits
ContentRange(s, shape) ==
    CASE shape = "ok" -> [slash |-> TRUE, total |-> ResLen(s), rest |-> FALSE]
      [] shape = "trailing" -> [slash |-> TRUE, total |-> ResLen(s), rest |-> TRUE]
      [] shape = "noslash" -> [slash |-> FALSE, total |-> 0, rest |-> FALSE]

Faults == {"fail", "header", "body"}
IfFault(kind, S) == IF kind \in env.faults THEN S ELSE {}

StatusCodes ==
    {HTTP_STATUS_CODE_OK}
    \cup IfFault("fail", {HTTP_STATUS_CODE_NO_CONTENT, HTTP_STATUS_CODE_FORBIDDEN,
                          HTTP_STATUS_CODE_NOT_FOUND, HTTP_STATUS_CODE_OTHER})

RangedResults(s) ==
    [fail : {FALSE}, status_code : StatusCodes,
     content_range : {"ok"} \cup IfFault("header", {"trailing", "noslash"}),
     body : {"exact"} \cup IfFault("body", {"short", "long"})]
    \cup IfFault("fail", [fail : {TRUE}, status_code : StatusCodes,
                          content_range : {"noslash"}, body : {"short"}])

WholeResults(s) ==
    [fail : {FALSE} \cup IfFault("fail", {TRUE}),
     status_code : StatusCodes,
     empty : {FALSE} \cup IfFault("body", {TRUE}),
     head_seqnum : {TRUE} \cup IfFault("header", {FALSE}),
     sequence_num : {TRUE} \cup IfFault("header", {FALSE})]

\* status_code_is_success: any 2xx
\* history, kept when env.record has "fetch": the answer the downloader has just handled
\* for stream s, and the stream as it was before
Fetched(s, result, data) ==
    IF "fetch" \in env.record
    THEN [op |-> "fetch", s |-> s, result |-> result, data |-> data, pre |-> stream[s],
          block_reading |-> dl.block_reading, expected_len |-> dl.expected_len]
    ELSE NoCall

status_code_is_success(code) == code \div 100 = 2

\* the stream after the first ranged answer's Content-Range has been parsed
\* (a ready stream's header is not read)
RangedParsed(st, cr) ==
    IF st.ready THEN st
    ELSE IF ~cr.slash THEN [st EXCEPT !.error = TRUE]
    ELSE IF cr.rest THEN [st EXCEPT !.len = cr.total, !.error = TRUE]
    ELSE [st EXCEPT !.len = cr.total, !.block_num = BlockNum(cr.total)]

\* SizeDiscrepancy that lets a body longer than the window through
SizeDiscrepancy_ShortOnly(st, data, expected_len) == st.ready /\ Len(data) < expected_len
\* `cur_stream->ready && result.data.size() != expected_len`
SizeDiscrepancy(st, data, expected_len) == st.ready /\ Len(data) # expected_len

\* the answer to the ranged request arrives
dl_ranged_response ==
    /\ dl.pc = "http"
    /\ ~stream[dl.cur_stream].whole_download
    /\ \E result \in RangedResults(dl.cur_stream) :
         LET s == dl.cur_stream
             st == stream[s]
             data == RangedBody(s, dl.start, dl.expected_len, result.body)
             parsed == RangedParsed(st, ContentRange(s, result.content_range))
         IN  /\ IF result.fail
                THEN /\ stream' = [stream EXCEPT ![s].error = TRUE]
                     /\ UNCHANGED last_set
                ELSE IF SizeDiscrepancy(st, data, dl.expected_len)
                THEN /\ stream' = [stream EXCEPT ![s].error = TRUE]
                     /\ UNCHANGED last_set
                ELSE /\ stream' = [stream EXCEPT ![s] =
                                     [parsed EXCEPT !.downloaded_data =
                                                        set_data(parsed, dl.block_reading, data),
                                                    !.ready = TRUE]]
                     /\ last_set' = SetRecord(s, parsed, dl.block_reading, data)
             /\ ut' = [ut EXCEPT !.call = Fetched(s, result, data)]
    /\ dl' = DlIdle
    /\ UNCHANGED <<streams, thread_exit_requested>>
    /\ dl_others

\* WholeHeaders without the test of x-sequence-num
WholeHeaders_SeqIdUnchecked(st, result) ==
    [st EXCEPT !.seq_head = IF result.head_seqnum THEN 1 ELSE -1,
               !.seq_id = IF result.sequence_num THEN 1 ELSE -1,
               !.error = st.error \/ ~result.head_seqnum]
\* the stream after x-head-seqnum and x-sequence-num are read: a header that
\* is absent, empty or not a number to its end leaves -1 and sets error
WholeHeaders(st, result) ==
    [st EXCEPT !.seq_head = IF result.head_seqnum THEN 1 ELSE -1,
               !.seq_id = IF result.sequence_num THEN 1 ELSE -1,
               !.error = st.error \/ ~result.head_seqnum \/ ~result.sequence_num]

\* the answer to the whole-download request arrives
dl_whole_response ==
    /\ dl.pc = "http"
    /\ stream[dl.cur_stream].whole_download
    /\ \E result \in WholeResults(dl.cur_stream) :
         LET s == dl.cur_stream
             st == stream[s]
             data == IF result.empty THEN <<>> ELSE OriginRange(s, 0, ResLen(s))
         IN  /\ ut' = [ut EXCEPT !.call = Fetched(s, result, data)]
             /\ IF ~result.fail /\ status_code_is_success(result.status_code) /\ Len(data) > 0
                THEN LET headers == WholeHeaders(st, result)
                     IN  IF ~headers.error
                         THEN /\ stream' = [stream EXCEPT ![s] =
                                              [headers EXCEPT !.len = Len(data),
                                                              !.block_num = BlockNum(Len(data))]]
                              /\ dl' = [dl EXCEPT !.pc = "whole", !.body = data, !.i = 0]
                         ELSE /\ stream' = [stream EXCEPT ![s] = headers]
                              /\ dl' = DlIdle
                ELSE /\ stream' = [stream EXCEPT ![s] =
                                     [st EXCEPT
                                        !.error = TRUE,
                                        !.livestream_eof =
                                            st.livestream_eof
                                            \/ result.status_code \in {HTTP_STATUS_CODE_NO_CONTENT,
                                                                        HTTP_STATUS_CODE_NOT_FOUND},
                                        !.livestream_private =
                                            st.livestream_private
                                            \/ result.status_code = HTTP_STATUS_CODE_FORBIDDEN]]
                     /\ dl' = DlIdle
    /\ UNCHANGED <<streams, thread_exit_requested, last_set>>
    /\ dl_others

\* one turn of the loop that splits the body into blocks, and ready = true
\* after its last turn
dl_whole_insert ==
    /\ dl.pc = "whole"
    /\ LET s == dl.cur_stream
           st == stream[s]
           left == dl.i
           right == MinOf(dl.i + BLOCK_SIZE, Len(dl.body))
           data == SubSeq(dl.body, left + 1, right)
       IN  IF dl.i < Len(dl.body)
           THEN /\ stream' = [stream EXCEPT ![s].downloaded_data =
                                                set_data(st, dl.i \div BLOCK_SIZE, data)]
                /\ last_set' = SetRecord(s, st, dl.i \div BLOCK_SIZE, data)
                /\ dl' = [dl EXCEPT !.i = dl.i + BLOCK_SIZE]
           ELSE /\ stream' = [stream EXCEPT ![s].ready = TRUE]
                /\ dl' = DlIdle
                /\ UNCHANGED last_set
    /\ UNCHANGED <<streams, thread_exit_requested, ut>>
    /\ dl_others

\* ------------------------------------------------------------------
\* The reader callbacks of network_decoder.cpp, one call at a time per stream
\* ------------------------------------------------------------------
\* the (offset, whence) pairs the decoder seeks with on stream s
SeekArgs(s) ==
    ({"SEEK_SET"} \X ((0 - 1)..(ResLen(s) + 1)))
    \cup ({"SEEK_CUR"} \X {0 - 1, 1})
    \cup ({"SEEK_END"} \X {0 - 1, 0, 1})
    \cup ({"AVSEEK_SIZE"} \X {0})

rd_others == UNCHANGED <<streams, thread_exit_requested, dl, env, last_set, ut, lock>>

\* the call returns: label `fail`, or the end of read_network_stream
Returned(r, ret, val, data) ==
    [r EXCEPT !.pc = "idle", !.cpu_limited = FALSE, !.ret = ret, !.val = val, !.data = data]
\* CpuAfterReturn without the remove_cpu_limit(25) of the exit
CpuAfterReturn_NoRemove(r) == cpu_limit
\* `if (cpu_limited) remove_cpu_limit(25)` on the way out of the call
CpuAfterReturn(r) == IF r.cpu_limited THEN cpu_limit - 1 ELSE cpu_limit

\* a callback of a stream the downloader has deleted reads freed memory
rd_use_after_free(s) ==
    /\ rd[s].pc \notin {"idle", "freed"}
    /\ stream[s].freed
    /\ rd' = [rd EXCEPT ![s].pc = "freed"]
    /\ UNCHANGED <<stream, dec, cpu_limit>>
    /\ rd_others

\* ffmpeg calls read_network_stream(opaque, buf, buf_size)
read_call(s) ==
    /\ s \in env.readers
    /\ rd[s].pc = "idle"
    /\ ~stream[s].freed
    /\ \E buf_size \in 0..MaxBuf :
          rd' = [rd EXCEPT ![s] = [@ EXCEPT !.pc = "read_loop", !.buf_size = buf_size,
                                            !.cpu_limited = FALSE, !.ret = "none",
                                            !.val = 0, !.data = <<>>]]
    /\ UNCHANGED <<stream, dec, cpu_limit>>
    /\ rd_others

\* the number of bytes the read asks the cache for
ReadSize(st, buf_size) == MinOf(buf_size, ToU64(st.len - st.read_head))

\* Interrupted without the test of disable_interrupt
Interrupted_DisableIgnored(st) == dec.interrupt
\* `!stream->disable_interrupt && decoder->interrupt`
Interrupted(st) == ~st.disable_interrupt /\ dec.interrupt

\* one evaluation of the while condition and, when it holds, the loop body up
\* to its usleep(20000)
read_loop(s) ==
    /\ rd[s].pc = "read_loop"
    /\ ~stream[s].freed
    /\ LET st == stream[s]
           r == rd[s]
       IN  IF ~st.ready \/ ~is_data_available(st, st.read_head, ReadSize(st, r.buf_size))
           THEN IF st.ready /\ st.read_head >= st.len
                THEN /\ rd' = [rd EXCEPT ![s] = Returned(r, "AVERROR_EOF", 0, <<>>)]
                     /\ cpu_limit' = CpuAfterReturn(r)
                     /\ UNCHANGED stream
                     /\ UNCHANGED dec
                ELSE IF Interrupted(st)
                THEN /\ rd' = [rd EXCEPT ![s] = Returned(r, "AVERROR_EOF", 0, <<>>)]
                     /\ cpu_limit' = CpuAfterReturn(r)
                     /\ UNCHANGED stream
                     /\ dec' = [dec EXCEPT !.need_reinit = TRUE]
                ELSE /\ rd' = [rd EXCEPT ![s].pc = "read_sleep", ![s].cpu_limited = TRUE]
                     /\ cpu_limit' = IF r.cpu_limited THEN cpu_limit ELSE cpu_limit + 1
                     /\ UNCHANGED stream
                     /\ UNCHANGED dec
           ELSE /\ rd' = [rd EXCEPT ![s].pc = "read_get", ![s].cpu_limited = FALSE]
                /\ cpu_limit' = CpuAfterReturn(r)
                /\ UNCHANGED stream
                /\ UNCHANGED dec
    /\ rd_others

\* after the usleep: a dead stream ends the read
read_wake(s) ==
    /\ rd[s].pc = "read_sleep"
    /\ ~stream[s].freed
    /\ IF stream[s].error \/ stream[s].quit_request
       THEN /\ rd' = [rd EXCEPT ![s] = Returned(rd[s], "AVERROR_EOF", 0, <<>>)]
            /\ cpu_limit' = CpuAfterReturn(rd[s])
            /\ UNCHANGED stream
       ELSE /\ rd' = [rd EXCEPT ![s].pc = "read_loop"]
            /\ UNCHANGED <<cpu_limit, stream>>
    /\ UNCHANGED dec
    /\ rd_others

\* get_data, the advance of read_head and the return
read_get(s) ==
    /\ rd[s].pc = "read_get"
    /\ ~stream[s].freed
    /\ LET st == stream[s]
           tmp == get_data(st, st.read_head, ReadSize(st, rd[s].buf_size))
           read_size == Len(tmp.data)
       IN  IF tmp.status # "ok"
           THEN /\ rd' = [rd EXCEPT ![s].pc = tmp.status]
                /\ UNCHANGED stream
           ELSE /\ stream' = [stream EXCEPT ![s].read_head = ToU64(st.read_head + read_size)]
                /\ rd' = [rd EXCEPT ![s] =
                            IF read_size = 0 THEN Returned(rd[s], "AVERROR_EOF", 0, <<>>)
                            ELSE Returned(rd[s], "read", read_size, tmp.data)]
    /\ UNCHANGED <<dec, cpu_limit>>
    /\ rd_others

\* ffmpeg calls seek_network_stream(opaque, offset, whence)
seek_call(s) ==
    /\ s \in env.readers
    /\ rd[s].pc = "idle"
    /\ ~stream[s].freed
    /\ rd' = [rd EXCEPT ![s] = [@ EXCEPT !.pc = "seek_loop", !.ret = "none", !.val = 0,
                                        !.data = <<>>]]
    /\ UNCHANGED <<stream, dec, cpu_limit>>
    /\ rd_others

\* NewPos with SEEK_CUR taken as SEEK_SET
NewPos_CurIsSet(st, offset, whence) ==
    CASE whence = "SEEK_SET" -> ToU64(offset)
      [] whence = "SEEK_CUR" -> ToU64(offset)
      [] whence = "SEEK_END" -> ToU64(st.len + offset)
      [] OTHER -> 0
\* the position a seek asks for, as the u64 new_pos
NewPos(st, offset, whence) ==
    CASE whence = "SEEK_SET" -> ToU64(offset)
      [] whence = "SEEK_CUR" -> ToU64(st.read_head + offset)
      [] whence = "SEEK_END" -> ToU64(st.len + offset)
      [] OTHER -> 0

\* seek_network_stream past its wait for ready: the value returned and the
\* read_head it leaves
seek_ready(st, offset, whence) ==
    LET new_pos == NewPos(st, offset, whence)
    IN  IF whence = "AVSEEK_SIZE" THEN [ret |-> st.len, read_head |-> st.read_head]
        ELSE IF new_pos > st.len THEN [ret |-> 0 - 1, read_head |-> st.read_head]
        ELSE [ret |-> new_pos, read_head |-> new_pos]

\* one turn of the wait for ready (with its usleep and its test for a dead
\* stream), or the seek itself once the stream is ready. The arguments of the
\* call are first read here.
seek_loop(s) ==
    /\ rd[s].pc = "seek_loop"
    /\ ~stream[s].freed
    /\ LET st == stream[s]
           r == rd[s]
       IN  IF ~st.ready
           THEN IF st.error \/ st.quit_request
                THEN /\ rd' = [rd EXCEPT ![s] = Returned(r, "seek", 0 - 1, <<>>)]
                     /\ UNCHANGED stream
                ELSE UNCHANGED <<rd, stream>>
           ELSE \E arg \in SeekArgs(s) :
                  LET res == seek_ready(st, arg[2], arg[1])
                  IN  /\ rd' = [rd EXCEPT ![s] = Returned(r, "seek", res.ret, <<>>)]
                      /\ stream' = [stream EXCEPT ![s].read_head = res.read_head]
    /\ UNCHANGED <<dec, cpu_limit>>
    /\ rd_others

\* ------------------------------------------------------------------
\* The other threads: the owner of the decoder and of the downloader
\* ------------------------------------------------------------------
ext_others == UNCHANGED <<streams, dl, rd, cpu_limit, env, last_set, ut, lock>>

\* NetworkDecoderFFmpegData::deinit(true): quit_request = true
deinit(s) ==
    /\ s \in env.closers
    /\ ~stream[s].freed
    /\ ~stream[s].quit_request
    /\ stream' = [stream EXCEPT ![s].quit_request = TRUE]
    /\ UNCHANGED <<thread_exit_requested, dec>>
    /\ ext_others

\* the owner of a stream sets or clears suspend_request
request_suspend(s) ==
    /\ s \in env.closers
    /\ ~stream[s].freed
    /\ stream' = [stream EXCEPT ![s].suspend_request = ~@]
    /\ UNCHANGED <<thread_exit_requested, dec>>
    /\ ext_others

\* NetworkDecoder::interrupt is set by the thread that wants the decoder back
request_interrupt ==
    /\ ~dec.interrupt
    /\ dec' = [dec EXCEPT !.interrupt = TRUE]
    /\ UNCHANGED <<stream, thread_exit_requested>>
    /\ ext_others

\* the downloader thread is asked to exit
request_thread_exit ==
    /\ ~thread_exit_requested
    /\ thread_exit_requested' = TRUE
    /\ UNCHANGED <<stream, dec>>
    /\ ext_others

\* ------------------------------------------------------------------
\* The whole system on one stream
\* ------------------------------------------------------------------
Init ==
    /\ \E whole \in BOOLEAN :
          stream = [s \in Streams |-> IF s = 1 THEN NewStream(whole) ELSE NewStream(FALSE)]
    /\ streams = <<>>
    /\ thread_exit_requested = FALSE
    /\ dl = DlIdle
    /\ rd = [s \in Streams |-> RdIdle]
    /\ dec = DecInit
    /\ cpu_limit = 0
    /\ env \in [ faults : {{}, Faults}, users : {{1}}, readers : {{1}}, closers : {{1}},
                 record : {{}} ]
    /\ last_set = NoSet
    /\ ut = UtInit
    /\ lock = LockInit

Next ==
    \/ \E s \in Streams : add_stream(s)
    \/ dl_select
    \/ dl_ranged_response
    \/ dl_whole_response
    \/ dl_whole_insert
    \/ \E s \in Streams : read_call(s)
    \/ \E s \in Streams : read_loop(s)
    \/ \E s \in Streams : read_wake(s)
    \/ \E s \in Streams : read_get(s)
    \/ \E s \in Streams : seek_call(s)
    \/ \E s \in Streams : seek_loop(s)
    \/ \E s \in Streams : rd_use_after_free(s)
    \/ \E s \in Streams : deinit(s)

Spec == Init /\ [][Next]_vars

\* the same system with an origin that answers every request correctly
InitSound == Init /\ env.faults = {}
SpecSound == InitSound /\ [][Next]_vars

\* ------------------------------------------------------------------
\* The downloader serving every stream: the streams are added in any order,
\* their owners seek, suspend and quit them, and fetches may fail
\* ------------------------------------------------------------------
InitSched ==
    /\ \E whole \in BOOLEAN :
          stream = [s \in Streams |-> IF s = 1 THEN NewStream(FALSE) ELSE NewStream(whole)]
    /\ streams = <<>>
    /\ thread_exit_requested = FALSE
    /\ dl = DlIdle
    /\ rd = [s \in Streams |-> RdIdle]
    /\ dec = DecInit
    /\ cpu_limit = 0
    /\ env = [ faults |-> {"fail"}, users |-> Streams, readers |-> {1},
               closers |-> Streams \ {1}, record |-> {} ]
    /\ last_set = NoSet
    /\ ut = UtInit
    /\ lock = LockInit

NextSched ==
    \/ \E s \in Streams : add_stream(s)
    \/ dl_select
    \/ dl_ranged_response
    \/ dl_whole_response
    \/ dl_whole_insert
    \/ \E s \in Streams : seek_call(s)
    \/ \E s \in Streams : seek_loop(s)
    \/ \E s \in Streams : deinit(s)
    \/ \E s \in Streams : request_suspend(s)

SpecSched == InitSched /\ [][NextSched]_vars

\* ------------------------------------------------------------------
\* One ranged stream, a sound origin, a reader that seeks and reads, and
\* nothing else: no interrupt, suspend, quit or exit. The downloader thread
\* keeps running and a callback that has been entered keeps running: each of
\* their steps is a turn of a loop of a thread of its own.
\* ------------------------------------------------------------------
InitLive ==
    /\ stream = [s \in Streams |-> NewStream(FALSE)]
    /\ streams = <<>>
    /\ thread_exit_requested = FALSE
    /\ dl = DlIdle
    /\ rd = [s \in Streams |-> RdIdle]
    /\ dec = DecInit
    /\ cpu_limit = 0
    /\ env = [ faults |-> {}, users |-> {1}, readers |-> {1}, closers |-> {}, record |-> {} ]
    /\ last_set = NoSet
    /\ ut = UtInit
    /\ lock = LockInit

NextLive ==
    \/ \E s \in Streams : add_stream(s)
    \/ dl_select
    \/ dl_ranged_response
    \/ \E s \in Streams : read_call(s)
    \/ \E s \in Streams : read_loop(s)
    \/ \E s \in Streams : read_wake(s)
    \/ \E s \in Streams : read_get(s)
    \/ \E s \in Streams : seek_call(s)
    \/ \E s \in Streams : seek_loop(s)

FairLive ==
    /\ WF_vars(\E s \in Streams : add_stream(s))
    /\ WF_vars(dl_select)
    /\ WF_vars(dl_ranged_response)
    /\ \A s \in Streams : /\ WF_vars(read_loop(s))
                          /\ WF_vars(read_wake(s))
                          /\ WF_vars(read_get(s))
                          /\ WF_vars(seek_loop(s))

SpecLive == InitLive /\ [][NextLive]_vars /\ FairLive

\* ------------------------------------------------------------------
\* The shutdown of the downloader thread: streams are added and closed by
\* their owners while the thread runs, fetches may fail, and the thread is
\* asked to exit at any time. No stream is added once the thread has
\* returned.
\* ------------------------------------------------------------------
InitExit ==
    /\ stream = [s \in Streams |-> NewStream(FALSE)]
    /\ streams = <<>>
    /\ thread_exit_requested = FALSE
    /\ dl = DlIdle
    /\ rd = [s \in Streams |-> RdIdle]
    /\ dec = DecInit
    /\ cpu_limit = 0
    /\ env = [ faults |-> {"fail"}, users |-> Streams, readers |-> {}, closers |-> Streams,
               record |-> {} ]
    /\ last_set = NoSet
    /\ ut = UtInit
    /\ lock = LockInit

\* add_stream called while downloader_thread has not returned
add_stream_running(s) ==
    /\ dl.pc # "exited"
    /\ add_stream(s)

NextExit ==
    \/ \E s \in Streams : add_stream_running(s)
    \/ dl_select
    \/ dl_ranged_response
    \/ dl_exit
    \/ dl_exit_mark
    \/ \E s \in Streams : deinit(s)
    \/ request_thread_exit

SpecExit == InitExit /\ [][NextExit]_vars

\* the downloader thread keeps running until it returns, and a fetch in
\* progress returns
FairExit ==
    /\ WF_vars(dl_select)
    /\ WF_vars(dl_ranged_response)
    /\ WF_vars(dl_exit)
    /\ WF_vars(dl_exit_mark)

SpecExitLive == SpecExit /\ FairExit

\* ------------------------------------------------------------------
\* The downloader thread running for ever over two ranged streams that are
\* added, suspended, resumed and closed by their owners in any order while
\* fetches may fail. Each step of the thread is a turn of its
\* loop, and a fetch in progress returns.
\* ------------------------------------------------------------------
InitReap ==
    /\ stream = [s \in Streams |-> NewStream(FALSE)]
    /\ streams = <<>>
    /\ thread_exit_requested = FALSE
    /\ dl = DlIdle
    /\ rd = [s \in Streams |-> RdIdle]
    /\ dec = DecInit
    /\ cpu_limit = 0
    /\ env = [ faults |-> {"fail"}, users |-> Streams, readers |-> {}, closers |-> Streams,
               record |-> {} ]
    /\ last_set = NoSet
    /\ ut = UtInit
    /\ lock = LockInit

NextReap ==
    \/ \E s \in Streams : add_stream(s)
    \/ dl_select
    \/ dl_ranged_response
    \/ \E s \in Streams : deinit(s)
    \/ \E s \in Streams : request_suspend(s)

FairReap ==
    /\ WF_vars(dl_select)
    /\ WF_vars(dl_ranged_response)

SpecReap == InitReap /\ [][NextReap]_vars /\ FairReap

\* ------------------------------------------------------------------
\* One ranged stream, a sound origin and a reader whose cursor only moves
\* forward: it reads, and it seeks to positions at or after read_head. The
\* blocks requested from the origin are kept in their order. The downloader
\* thread keeps running.
\* ------------------------------------------------------------------
InitOrder ==
    /\ stream = [s \in Streams |-> NewStream(FALSE)]
    /\ streams = <<>>
    /\ thread_exit_requested = FALSE
    /\ dl = DlIdle
    /\ rd = [s \in Streams |-> RdIdle]
    /\ dec = DecInit
    /\ cpu_limit = 0
    /\ env = [ faults |-> {}, users |-> {1}, readers |-> {1}, closers |-> {},
               record |-> {"order"} ]
    /\ last_set = NoSet
    /\ ut = UtInit
    /\ lock = LockInit

\* a turn of seek_network_stream that does not move read_head backward
seek_forward(s) ==
    /\ seek_loop(s)
    /\ stream'[s].read_head >= stream[s].read_head

NextOrder ==
    \/ \E s \in Streams : add_stream(s)
    \/ dl_select
    \/ dl_ranged_response
    \/ \E s \in Streams : read_call(s)
    \/ \E s \in Streams : read_loop(s)
    \/ \E s \in Streams : read_wake(s)
    \/ \E s \in Streams : read_get(s)
    \/ \E s \in Streams : seek_call(s)
    \/ \E s \in Streams : seek_forward(s)

FairOrder ==
    /\ WF_vars(dl_select)
    /\ WF_vars(dl_ranged_response)

SpecOrder == InitOrder /\ [][NextOrder]_vars /\ FairOrder

\* ------------------------------------------------------------------
\* The locking of every operation: each step is the taking or the release of
\* a mutex, or the part of an operation between two of them. What the parts
\* compute is left out: a branch on data is a choice.
\* ------------------------------------------------------------------
lock_others ==
    UNCHANGED <<stream, streams, thread_exit_requested, dl, rd, dec, cpu_limit, env, last_set, ut>>

\* svcWaitSynchronization(mutex, max) by thread t, which goes on to pc
Acquire(l, mutex, t, pc) == [l EXCEPT ![mutex] = t, !.pc[t] = pc]
\* Release that leaves the mutex held
Release_Kept(l, mutex, t, pc) == [l EXCEPT !.pc[t] = pc]
\* svcReleaseMutex(mutex) by thread t, which goes on to pc
Release(l, mutex, t, pc) == [l EXCEPT ![mutex] = "free", !.pc[t] = pc]
Goto(l, t, pc) == [l EXCEPT !.pc[t] = pc]

\* downloader_thread: svcWaitSynchronization(streams_lock) at the top of the loop
lk_dl_lock ==
    /\ lock.pc["downloader"] = "loop"
    /\ lock.streams_lock = "free"
    /\ lock' = Acquire(lock, "streams_lock", "downloader", "select")
    /\ lock_others

\* the selection loop reaches a ready ranged stream and scans its
\* downloaded_data for the first block that is not downloaded
lk_dl_scan ==
    /\ lock.pc["downloader"] = "select"
    /\ lock' = Goto(lock, "downloader", "scan")
    /\ lock_others

\* the scan ends and the selection loop goes on
lk_dl_scan_done ==
    /\ lock.pc["downloader"] = "scan"
    /\ lock' = Goto(lock, "downloader", "select")
    /\ lock_others

\* the backup of the read_heads and the selection loop, then the release:
\* before the usleep when no stream is selected, before the fetch otherwise
\* (for a ready ranged stream block_reading is looked for first)
lk_dl_select ==
    /\ lock.pc["downloader"] = "select"
    /\ \E next \in {"sleep", "http_whole", "http_ranged", "block_reading"} :
          lock' = Release(lock, "streams_lock", "downloader", next)
    /\ lock_others

\* the fetch phase on a ready ranged stream: the while loop over
\* downloaded_data that finds block_reading, then the request, or
\* `unexpected error` and the next tick
lk_dl_block_reading ==
    /\ lock.pc["downloader"] = "block_reading"
    /\ \E next \in {"http_ranged", "loop"} : lock' = Goto(lock, "downloader", next)
    /\ lock_others

\* usleep(20000) of the idle tick
lk_dl_sleep ==
    /\ lock.pc["downloader"] = "sleep"
    /\ lock' = Goto(lock, "downloader", "loop")
    /\ lock_others

\* Access_http_get returns: a failure or a bad answer ends the tick, a good
\* one leads to set_data (once for a ranged answer, per block for a whole one)
lk_dl_http ==
    /\ lock.pc["downloader"] \in {"http_whole", "http_ranged"}
    /\ \E next \in {"loop", IF lock.pc["downloader"] = "http_whole"
                            THEN "whole_insert" ELSE "set_data_ranged"} :
          lock' = Goto(lock, "downloader", next)
    /\ lock_others

\* one turn of the loop over the blocks of a whole body, or its end
lk_dl_whole_insert ==
    /\ lock.pc["downloader"] = "whole_insert"
    /\ \E next \in {"set_data_whole", "loop"} : lock' = Goto(lock, "downloader", next)
    /\ lock_others

\* set_data: svcWaitSynchronization(downloaded_data_lock)
lk_set_data_lock ==
    /\ lock.pc["downloader"] \in {"set_data_whole", "set_data_ranged"}
    /\ lock.downloaded_data_lock = "free"
    /\ lock' = Acquire(lock, "downloaded_data_lock", "downloader",
                       IF lock.pc["downloader"] = "set_data_whole"
                       THEN "in_set_data_whole" ELSE "in_set_data_ranged")
    /\ lock_others

\* set_data: the store, the eviction and svcReleaseMutex(downloaded_data_lock)
lk_set_data_unlock ==
    /\ lock.pc["downloader"] \in {"in_set_data_whole", "in_set_data_ranged"}
    /\ lock' = Release(lock, "downloaded_data_lock", "downloader",
                       IF lock.pc["downloader"] = "in_set_data_whole"
                       THEN "whole_insert" ELSE "loop")
    /\ lock_others

\* add_stream: svcWaitSynchronization(streams_lock)
lk_add_lock ==
    /\ lock.pc["adder"] = "idle"
    /\ lock.streams_lock = "free"
    /\ lock' = Acquire(lock, "streams_lock", "adder", "in_add_stream")
    /\ lock_others

\* add_stream: the slot is taken and the mutex released
lk_add_unlock ==
    /\ lock.pc["adder"] = "in_add_stream"
    /\ lock' = Release(lock, "streams_lock", "adder", "idle")
    /\ lock_others

\* get_download_percentage, get_buffering_progress_bar: the mutex is taken
lk_observe_lock ==
    /\ lock.pc["observer"] = "idle"
    /\ lock.downloaded_data_lock = "free"
    /\ lock' = Acquire(lock, "downloaded_data_lock", "observer", "in_observe")
    /\ lock_others

\* get_download_percentage, get_buffering_progress_bar: the result is
\* computed and the mutex released
lk_observe_unlock ==
    /\ lock.pc["observer"] = "in_observe"
    /\ lock' = Release(lock, "downloaded_data_lock", "observer", "idle")
    /\ lock_others

\* ffmpeg calls read_network_stream or seek_network_stream
lk_rd_call ==
    /\ lock.pc["reader"] = "idle"
    /\ \E next \in {"read_loop", "seek_loop"} : lock' = Goto(lock, "reader", next)
    /\ lock_others

\* the while condition of the read: not ready, or is_data_available returns
\* before it takes the mutex (not ready, range beyond len)
lk_rd_unavailable ==
    /\ lock.pc["reader"] = "read_loop"
    /\ lock' = Goto(lock, "reader", "read_wait")
    /\ lock_others

\* is_data_available: svcWaitSynchronization(downloaded_data_lock)
lk_avail_lock ==
    /\ lock.pc["reader"] = "read_loop"
    /\ lock.downloaded_data_lock = "free"
    /\ lock' = Acquire(lock, "downloaded_data_lock", "reader", "in_is_data_available")
    /\ lock_others

\* is_data_available: the scan, svcReleaseMutex and the result
lk_avail_unlock ==
    /\ lock.pc["reader"] = "in_is_data_available"
    /\ \E next \in {"read_wait", "get_data"} :
          lock' = Release(lock, "downloaded_data_lock", "reader", next)
    /\ lock_others

\* the body of the wait loop: the returns at the end of the stream and on
\* interrupt, or on to the usleep
lk_rd_wait ==
    /\ lock.pc["reader"] = "read_wait"
    /\ \E next \in {"idle", "read_sleep"} : lock' = Goto(lock, "reader", next)
    /\ lock_others

\* usleep(20000) of the read, then the return on a dead stream or the next turn
lk_rd_sleep ==
    /\ lock.pc["reader"] = "read_sleep"
    /\ \E next \in {"idle", "read_loop"} : lock' = Goto(lock, "reader", next)
    /\ lock_others

\* get_data returns before it takes the mutex (size 0), and the read returns
lk_get_empty ==
    /\ lock.pc["reader"] = "get_data"
    /\ lock' = Goto(lock, "reader", "idle")
    /\ lock_others

\* get_data: svcWaitSynchronization(downloaded_data_lock)
lk_get_lock ==
    /\ lock.pc["reader"] = "get_data"
    /\ lock.downloaded_data_lock = "free"
    /\ lock' = Acquire(lock, "downloaded_data_lock", "reader", "in_get_data")
    /\ lock_others

\* get_data: the copy and svcReleaseMutex, and the read returns
lk_get_unlock ==
    /\ lock.pc["reader"] = "in_get_data"
    /\ lock' = Release(lock, "downloaded_data_lock", "reader", "idle")
    /\ lock_others

\* seek_network_stream: ready, and the seek returns, or on to the usleep
lk_seek_loop ==
    /\ lock.pc["reader"] = "seek_loop"
    /\ \E next \in {"idle", "seek_sleep"} : lock' = Goto(lock, "reader", next)
    /\ lock_others

\* usleep(20000) of the seek, then the return on a dead stream or the next turn
lk_seek_sleep ==
    /\ lock.pc["reader"] = "seek_sleep"
    /\ \E next \in {"idle", "seek_loop"} : lock' = Goto(lock, "reader", next)
    /\ lock_others

NextLock ==
    \/ lk_dl_lock
    \/ lk_dl_scan
    \/ lk_dl_scan_done
    \/ lk_dl_select
    \/ lk_dl_block_reading
    \/ lk_dl_sleep
    \/ lk_dl_http
    \/ lk_dl_whole_insert
    \/ lk_set_data_lock
    \/ lk_set_data_unlock
    \/ lk_add_lock
    \/ lk_add_unlock
    \/ lk_observe_lock
    \/ lk_observe_unlock
    \/ lk_rd_call
    \/ lk_rd_unavailable
    \/ lk_avail_lock
    \/ lk_avail_unlock
    \/ lk_rd_wait
    \/ lk_rd_sleep
    \/ lk_get_empty
    \/ lk_get_lock
    \/ lk_get_unlock
    \/ lk_seek_loop
    \/ lk_seek_sleep

SpecLock == Init /\ [][NextLock]_vars

\* ------------------------------------------------------------------
\* The downloader on one stream and an origin with every fault, each answer
\* kept in the history; the reader only seeks.
\* ------------------------------------------------------------------
InitFetch ==
    /\ \E whole \in BOOLEAN :
          stream = [s \in Streams |-> NewStream(IF s = 1 THEN whole ELSE FALSE)]
    /\ streams = <<>>
    /\ thread_exit_requested = FALSE
    /\ dl = DlIdle
    /\ rd = [s \in Streams |-> RdIdle]
    /\ dec = DecInit
    /\ cpu_limit = 0
    /\ env = [ faults |-> Faults, users |-> {1}, readers |-> {1}, closers |-> {}, record |-> {"fetch"} ]
    /\ last_set = NoSet
    /\ ut = UtInit
    /\ lock = LockInit

NextFetch ==
    \/ \E s \in Streams : add_stream(s)
    \/ dl_select
    \/ dl_ranged_response
    \/ dl_whole_response
    \/ dl_whole_insert
    \/ \E s \in Streams : seek_call(s)
    \/ \E s \in Streams : seek_loop(s)

SpecFetch == InitFetch /\ [][NextFetch]_vars

\* ------------------------------------------------------------------
\* seek_network_stream called directly on a ready stream of any length, with
\* any cache contents set_data can leave
\* ------------------------------------------------------------------
UnitSeekArgs ==
    ({"SEEK_SET", "SEEK_CUR", "SEEK_END"} \X ((0 - MaxLen - 1)..(MaxLen + 1)))
    \cup ({"AVSEEK_SIZE"} \X {0})

Unit_seek ==
    \E arg \in UnitSeekArgs :
        LET res == seek_ready(stream[1], arg[2], arg[1])
        IN  /\ stream' = [stream EXCEPT ![1].read_head = res.read_head]
            /\ ut' = [ut EXCEPT !.call = [op |-> "seek", whence |-> arg[1], offset |-> arg[2],
                                          read_head |-> stream[1].read_head, ret |-> res.ret]]
            /\ last_set' = NoSet
            /\ Unit_others

NextSeek ==
    \/ Unit_set_data
    \/ Unit_seek

SpecSeek == InitCache /\ [][NextSeek]_vars

\* ------------------------------------------------------------------
\* One stream with its reader, its owner and the thread that interrupts the
\* decoder: the origin may fail, the stream is closed at any time, the
\* interrupt flag is raised at any time, and the stream is made with
\* disable_interrupt either way.
\* ------------------------------------------------------------------
InitRead ==
    /\ \E whole \in BOOLEAN, disable_interrupt \in BOOLEAN :
          stream = [s \in Streams |->
                       [NewStream(IF s = 1 THEN whole ELSE FALSE)
                           EXCEPT !.disable_interrupt = disable_interrupt]]
    /\ streams = <<>>
    /\ thread_exit_requested = FALSE
    /\ dl = DlIdle
    /\ rd = [s \in Streams |-> RdIdle]
    /\ dec = DecInit
    /\ cpu_limit = 0
    /\ env = [ faults |-> {"fail"}, users |-> {1}, readers |-> {1}, closers |-> {1}, record |-> {} ]
    /\ last_set = NoSet
    /\ ut = UtInit
    /\ lock = LockInit

NextRead ==
    \/ \E s \in Streams : add_stream(s)
    \/ dl_select
    \/ dl_ranged_response
    \/ dl_whole_response
    \/ dl_whole_insert
    \/ \E s \in Streams : read_call(s)
    \/ \E s \in Streams : read_loop(s)
    \/ \E s \in Streams : read_wake(s)
    \/ \E s \in Streams : read_get(s)
    \/ \E s \in Streams : seek_call(s)
    \/ \E s \in Streams : seek_loop(s)
    \/ \E s \in Streams : rd_use_after_free(s)
    \/ \E s \in Streams : deinit(s)
    \/ request_interrupt

SpecRead == InitRead /\ [][NextRead]_vars

\* ------------------------------------------------------------------
\* Claims on the block cache
\* ------------------------------------------------------------------
Resident(s) == DOMAIN stream[s].downloaded_data
\* the key set right after the store of set_data, before its eviction
Stored == last_set.pre \cup {last_set.block}

\* C1: after any sequence of set_data calls and read_head changes a stream
\* holds at most MAX_CACHE_BLOCKS blocks, and one set_data call removes
\* exactly one block when its store makes the count exceed MAX_CACHE_BLOCKS
\* and none otherwise.
C1_ResidencyBounded ==
    /\ \A s \in Streams : Cardinality(Resident(s)) <= MAX_CACHE_BLOCKS
    /\ last_set.s # NULL =>
          /\ last_set.post \subseteq Stored
          /\ Cardinality(Stored \ last_set.post)
                = (IF Cardinality(Stored) > MAX_CACHE_BLOCKS THEN 1 ELSE 0)

\* a set_data call that overflowed a full cache
C1_Witness ==
    /\ last_set.s # NULL
    /\ Cardinality(last_set.pre) = MAX_CACHE_BLOCKS
    /\ Cardinality(Stored) > MAX_CACHE_BLOCKS
    /\ Cardinality(Resident(last_set.s)) = MAX_CACHE_BLOCKS

\* C2: a set_data of a new block into a cache holding MAX_CACHE_BLOCKS blocks
\* removes min(S') if min(S') < read_head / BLOCK_SIZE and max(S') otherwise,
\* S' being the old key set plus the new key and read_head the cursor at the
\* time of the call.
C2_EvictionChoice ==
    (/\ last_set.s # NULL
     /\ Cardinality(last_set.pre) = MAX_CACHE_BLOCKS
     /\ last_set.block \notin last_set.pre)
    => LET lo == CHOOSE x \in Stored : \A y \in Stored : x <= y
           hi == CHOOSE x \in Stored : \A y \in Stored : y <= x
           cursor_block == last_set.read_head \div BLOCK_SIZE
       IN  last_set.post = Stored \ {IF lo < cursor_block THEN lo ELSE hi}

\* the lowest block lay before the cursor and was the one evicted
C2_Witness ==
    /\ last_set.s # NULL
    /\ Cardinality(last_set.pre) = MAX_CACHE_BLOCKS
    /\ last_set.block \notin last_set.pre
    /\ \E lo \in Stored :
          /\ \A y \in Stored : lo <= y
          /\ lo < last_set.read_head \div BLOCK_SIZE
          /\ lo \notin last_set.post
          /\ last_set.block \in last_set.post

\* C4: get_data(start, size) on a range is_data_available reports available
\* returns exactly size bytes, byte k being byte (start + k) mod BLOCK_SIZE of
\* the data last passed to set_data for block (start + k) / BLOCK_SIZE.
C4_ReadIsConcatenation ==
    ut.call.op = "get_data" =>
        /\ ut.call.res.status = "ok"
        /\ Len(ut.call.res.data) = ut.call.size
        /\ \A k \in 1..ut.call.size :
              LET pos == ut.call.start + k - 1
              IN  /\ pos \div BLOCK_SIZE \in DOMAIN ut.b
                  /\ ut.call.res.data[k] = ut.b[pos \div BLOCK_SIZE][(pos % BLOCK_SIZE) + 1]

\* a read that crosses a block boundary, from inside the first block
C4_Witness ==
    /\ ut.call.op = "get_data"
    /\ ut.call.res.status = "ok"
    /\ ut.call.start % BLOCK_SIZE # 0
    /\ (ut.call.start + ut.call.size - 1) \div BLOCK_SIZE > ut.call.start \div BLOCK_SIZE
    /\ Len(ut.call.res.data) >= 2

\* ------------------------------------------------------------------
\* Claims on availability, on the shape of a ready stream and on errors
\* ------------------------------------------------------------------
\* the block indices whose byte range meets [start, start + size)
BlocksOfRange(start, size) ==
    {b \in 0..((start + size) \div BLOCK_SIZE) :
        b * BLOCK_SIZE < start + size /\ (b + 1) * BLOCK_SIZE > start}

\* C3: for every start and size, size = 0 included, is_data_available(start,
\* size) is true iff the stream is ready, start + size <= len and every block
\* that meets [start, start + size) is resident.
C3_AvailableIffResident ==
    \A s \in env.users : \A start \in 0..(ResLen(s) + 1), size \in 0..MaxBuf :
        is_data_available(stream[s], start, size)
          <=> (/\ stream[s].ready
               /\ start + size <= stream[s].len
               /\ BlocksOfRange(start, size) \subseteq Resident(s))

\* C5: a ready stream has block_num = ceil(len / BLOCK_SIZE), every cached key
\* below block_num, and every cached block of the length of its part of the
\* resource, whatever the first ranged answer was.
C5_ReadyStreamWellFormed ==
    \A s \in Streams :
        (stream[s].ready /\ ~stream[s].freed) =>
            /\ stream[s].block_num * BLOCK_SIZE >= stream[s].len
            /\ (stream[s].block_num - 1) * BLOCK_SIZE < stream[s].len
            /\ \A k \in Resident(s) :
                  /\ k < stream[s].block_num
                  /\ Len(stream[s].downloaded_data[k]) = BlockLen(stream[s].len, k)

\* C6: once error is set on a stream it stays set, and the downloader never
\* again has that stream as the one it fetches for.
C6_ErrorSticky ==
    /\ [](dl.pc \in {"http", "whole"} => ~stream[dl.cur_stream].error)
    /\ [][\A s \in Streams : stream[s].error => stream'[s].error]_vars

\* a stream that took its error with its first block stored, and over which a
\* later selection pass has gone
C6_Witness ==
    /\ stream[1].error
    /\ stream[1].ready
    /\ ~stream[1].quit_request
    /\ InSlot(1)
    /\ Resident(1) # {}
    /\ last_set = NoSet
    /\ dl.pc = "loop"

\* the blocks of the forward window of a cursor, within the resource
Window(st, read_head) ==
    {b \in 0..(st.block_num - 1) :
        /\ b >= read_head \div BLOCK_SIZE
        /\ b < read_head \div BLOCK_SIZE + MAX_FORWARD_READ_BLOCKS}

\* a ranged ready stream in slot i whose forward window is all cached is not
\* what a selection pass run now selects
SaturatedNotSelected ==
    \A i \in Slots :
        (/\ streams[i] # NULL
         /\ stream[streams[i]].ready
         /\ ~stream[streams[i]].whole_download
         /\ Window(stream[streams[i]], stream[streams[i]].read_head)
               \subseteq Resident(streams[i]))
        => Select(streams, stream, ReadHeads).cur # i

\* C9 as stated: a ranged ready stream whose forward window (or whose rest of
\* the resource) is cached is not selected, the block fetched lies below
\* cursor_block + MAX_FORWARD_READ_BLOCKS, and no cached block lies at or
\* beyond cursor_block + MAX_FORWARD_READ_BLOCKS.
C9_NoBlockBeyondWindow ==
    /\ SaturatedNotSelected
    /\ (dl.pc = "http" /\ ~stream[dl.cur_stream].whole_download) =>
           dl.block_reading < stream[dl.cur_stream].read_head \div BLOCK_SIZE
                                  + MAX_FORWARD_READ_BLOCKS
    /\ \A s \in Streams :
           (stream[s].ready /\ ~stream[s].whole_download /\ ~stream[s].freed) =>
               \A k \in Resident(s) :
                   k < stream[s].read_head \div BLOCK_SIZE + MAX_FORWARD_READ_BLOCKS

\* C9 amended: a ranged ready stream whose forward window (or whose rest of
\* the resource) is cached is not selected, and the block the downloader
\* fetches and inserts lies below cursor_block + MAX_FORWARD_READ_BLOCKS for
\* the cursor_block of the read_head backed up at the start of that tick.
C9_FetchWithinWindowOfBackup ==
    /\ SaturatedNotSelected
    /\ (dl.pc = "http" /\ ~stream[dl.cur_stream].whole_download) =>
           /\ dl.block_reading >= dl.read_head \div BLOCK_SIZE
           /\ dl.block_reading < dl.read_head \div BLOCK_SIZE + MAX_FORWARD_READ_BLOCKS
           /\ dl.block_reading \notin Resident(dl.cur_stream)

\* the window of the cursor is cached, a block beyond it is missing, and a
\* selection pass has left the stream alone
C9_Witness ==
    /\ InSlot(1)
    /\ stream[1].ready /\ ~stream[1].whole_download
    /\ ~stream[1].error /\ ~stream[1].quit_request /\ ~stream[1].suspend_request
    /\ Cardinality(Window(stream[1], stream[1].read_head)) = MAX_FORWARD_READ_BLOCKS
    /\ Window(stream[1], stream[1].read_head) \subseteq Resident(1)
    /\ \E b \in 0..(stream[1].block_num - 1) :
          b >= stream[1].read_head \div BLOCK_SIZE + MAX_FORWARD_READ_BLOCKS
          /\ b \notin Resident(1)
    /\ dl.pc = "loop"
    /\ last_set = NoSet

\* ------------------------------------------------------------------
\* Seek, then read
\* ------------------------------------------------------------------
\* the last read of stream s has returned val bytes, the bytes of the origin
\* from the cursor it was called at, and all the bytes asked for when the
\* resource has that many left
ReadReturnedRight(s) ==
    rd[s].ret = "read" =>
        LET x == stream[s].read_head - rd[s].val
        IN  /\ rd[s].val = Len(rd[s].data)
            /\ rd[s].data = OriginRange(s, x, x + rd[s].val)
            /\ x + rd[s].buf_size <= stream[s].len => rd[s].val = rd[s].buf_size
\* a read of n bytes is waiting with the cursor at x, x + n <= len of the
\* resource
ReadWaiting(s) ==
    /\ rd[s].pc = "read_loop"
    /\ stream[s].read_head + rd[s].buf_size <= ResLen(s)

\* C10: with the downloader running, a sound origin and no interrupt,
\* suspend, quit or error, a read of n bytes called with the cursor at x (as
\* seek(x, SEEK_SET) leaves it), x + n <= len, eventually returns, and what
\* it returns is the bytes [x, x + n) of the resource.
C10_ReadAfterSeekReturns ==
    /\ [](\A s \in Streams : ReadReturnedRight(s))
    /\ \A s \in Streams : ReadWaiting(s) ~> (rd[s].pc = "idle")

\* ------------------------------------------------------------------
\* The selection pass
\* ------------------------------------------------------------------
\* the slots whose stream has none of error, suspend_request, quit_request
Eligible ==
    {i \in Slots : /\ streams[i] # NULL
                   /\ ~stream[streams[i]].error
                   /\ ~stream[streams[i]].suspend_request
                   /\ ~stream[streams[i]].quit_request}
NotReadyEligible == {i \in Eligible : ~stream[streams[i]].ready}

\* C7: a selection pass never selects a stream with error or suspend_request
\* set, and when some stream without error, suspend_request and quit_request
\* is not yet ready it selects the lowest slot holding such a stream, whatever
\* the margins of the ready streams.
C7_NotReadyFirst ==
    LET sel == Select(streams, stream, ReadHeads)
    IN  /\ sel.cur # NULL => /\ ~stream[streams[sel.cur]].error
                             /\ ~stream[streams[sel.cur]].suspend_request
        /\ NotReadyEligible # {} => sel.cur = Min(NotReadyEligible)

\* the pass has selected the not-ready stream of slot 2 though slot 1 holds a
\* ready ranged stream with a block to download
C7_Witness ==
    /\ dl.pc = "http"
    /\ dl.cur_stream_index = 2
    /\ ~stream[dl.cur_stream].ready
    /\ 1 \in Eligible
    /\ stream[streams[1]].ready
    /\ ~stream[streams[1]].whole_download
    /\ NeedsDownload(stream[streams[1]], stream[streams[1]].read_head)

\* the first block at or after the cursor block that is not cached
NextNeeded(s, read_head) ==
    Min({b \in (read_head \div BLOCK_SIZE)..(stream[s].block_num + MAX_FORWARD_READ_BLOCKS) :
            b \notin Resident(s)})
\* margin_percent of stream s as the fraction num / den of 100 percent
MarginPercent(s, read_head) ==
    IF read_head \div BLOCK_SIZE \notin Resident(s)
    THEN [num |-> 0, den |-> 1]
    ELSE [num |-> NextNeeded(s, read_head) * BLOCK_SIZE - read_head, den |-> stream[s].len]
\* the slots of the ready ranged streams with a block of the forward window
\* to download
Candidates ==
    {i \in Eligible : /\ stream[streams[i]].ready
                      /\ ~stream[streams[i]].whole_download
                      /\ Window(stream[streams[i]], ReadHeads[i]) \ Resident(streams[i]) # {}}

\* C8: when every eligible stream is ready, a selection pass selects, of the
\* ranged streams with a block of their forward window to download, the one
\* of smallest margin_percent (0 when the cursor block is missing, otherwise
\* (next_needed * BLOCK_SIZE - read_head) * 100 / len), the lowest slot among
\* those of equal margin, and none when there is no such stream.
C8_SmallestMargin ==
    NotReadyEligible = {} =>
        LET sel == Select(streams, stream, ReadHeads)
            m(i) == MarginPercent(streams[i], ReadHeads[i])
        IN  IF Candidates = {} THEN sel.cur = NULL
            ELSE /\ sel.cur \in Candidates
                 /\ \A j \in Candidates :
                       /\ m(sel.cur).num * m(j).den <= m(j).num * m(sel.cur).den
                       /\ m(sel.cur).num * m(j).den = m(j).num * m(sel.cur).den
                             => sel.cur <= j

\* the pass has selected the ready stream of slot 2, whose margin is smaller
\* than that of the ready stream of slot 1, which has a block to download too
C8_Witness ==
    /\ dl.pc = "http"
    /\ dl.cur_stream_index = 2
    /\ stream[dl.cur_stream].ready
    /\ Eligible = {1, 2}
    /\ Candidates = {1, 2}
    /\ LET m1 == MarginPercent(streams[1], ReadHeads[1])
           m2 == MarginPercent(dl.cur_stream, dl.read_head)
       IN  m2.num * m1.den < m1.num * m2.den

\* ------------------------------------------------------------------
\* Claims on the reader callbacks
\* ------------------------------------------------------------------
\* a step in which the read_network_stream call running on s returns
ReadReturns(s) ==
    /\ rd[s].pc \in {"read_loop", "read_sleep", "read_get"}
    /\ rd'[s].pc = "idle"
\* what a returning read gives back and does to read_head: min(n, len -
\* read_head) bytes, at least one, with read_head advanced by as many, or EOF
\* with read_head left alone
ReadReturnsCount ==
    \A s \in Streams :
        ReadReturns(s) =>
            IF rd'[s].ret = "read"
            THEN /\ stream[s].ready
                 /\ rd'[s].val = MinOf(rd[s].buf_size, stream[s].len - stream[s].read_head)
                 /\ rd'[s].val >= 1
                 /\ Len(rd'[s].data) = rd'[s].val
                 /\ stream'[s].read_head = stream[s].read_head + rd'[s].val
            ELSE /\ rd'[s].ret = "AVERROR_EOF"
                 /\ stream'[s].read_head = stream[s].read_head
ReadHeadWithinLen ==
    \A s \in Streams : (stream[s].ready /\ ~stream[s].freed) => stream[s].read_head <= stream[s].len
\* a read is running on a ready stream with nothing to give: the cursor is at
\* len or beyond, or no byte is asked for
ReadOfNothing(s) ==
    /\ rd[s].pc = "read_loop"
    /\ stream[s].ready
    /\ ReadSize(stream[s], rd[s].buf_size) = 0

\* C11: a read that returns data on a ready stream returns min(n, len -
\* read_head) bytes and advances read_head by that count, read_head <= len
\* holds on every ready stream, and a read with read_head >= len or a byte
\* count of zero returns EOF with read_head unchanged.
C11_ReadCountAndEof ==
    /\ []ReadHeadWithinLen
    /\ [][ReadReturnsCount]_vars
    /\ \A s \in Streams :
          ReadOfNothing(s) ~> (rd[s].pc = "idle" /\ rd[s].ret = "AVERROR_EOF")

\* a step that is one turn of the wait loop of the read running on s
ReadLoopStep(s) ==
    /\ rd[s].pc = "read_loop"
    /\ rd'[s].pc \in {"idle", "read_sleep", "read_get"}
\* the read running on s finds its range not available
RangeNotAvailable(s) ==
    \/ ~stream[s].ready
    \/ ~is_data_available(stream[s], stream[s].read_head,
                          ReadSize(stream[s], rd[s].buf_size))
\* the turn ends the read with EOF and need_reinit set, the stream untouched
InterruptedReturn(s) ==
    /\ rd'[s].pc = "idle"
    /\ rd'[s].ret = "AVERROR_EOF"
    /\ dec'.need_reinit
    /\ stream' = stream
\* with disable_interrupt a turn of the wait loop leaves need_reinit alone
\* and, the range not being available and the cursor not at the end, waits on
DisabledInterruptIgnored ==
    \A s \in Streams :
        (ReadLoopStep(s) /\ stream[s].disable_interrupt) =>
            /\ dec'.need_reinit = dec.need_reinit
            /\ (RangeNotAvailable(s)
                  /\ ~(stream[s].ready /\ stream[s].read_head >= stream[s].len))
               => rd'[s].pc = "read_sleep"

SeekTarget(whence, offset, read_head, len) ==
    CASE whence = "SEEK_SET" -> offset
      [] whence = "SEEK_CUR" -> read_head + offset
      [] whence = "SEEK_END" -> len + offset

\* C13: on a ready stream a seek to new = offset (SET), read_head + offset
\* (CUR) or len + offset (END) returns -1 and leaves read_head alone when new
\* is negative or beyond len, and otherwise sets read_head to new and returns
\* it; AVSEEK_SIZE returns len and leaves read_head alone; no seek changes
\* the block cache.
C13_SeekResult ==
    /\ [](ut.call.op = "seek" =>
            LET c == ut.call
                len == stream[1].len
            IN  IF c.whence = "AVSEEK_SIZE"
                THEN c.ret = len /\ stream[1].read_head = c.read_head
                ELSE LET new == SeekTarget(c.whence, c.offset, c.read_head, len)
                     IN  IF new < 0 \/ new > len
                         THEN c.ret = 0 - 1 /\ stream[1].read_head = c.read_head
                         ELSE c.ret = new /\ stream[1].read_head = new)
    /\ [][ut'.call.op = "seek" =>
            stream'[1].downloaded_data = stream[1].downloaded_data]_vars

\* a SEEK_CUR backwards has moved the cursor of a stream with a full cache
C13_Witness ==
    /\ ut.call.op = "seek"
    /\ ut.call.whence = "SEEK_CUR"
    /\ ut.call.offset < 0
    /\ ut.call.ret = ut.call.read_head + ut.call.offset
    /\ stream[1].read_head = ut.call.ret
    /\ Cardinality(Resident(1)) = MAX_CACHE_BLOCKS

\* C14: the add_cpu_limit(25) calls not yet matched by a remove_cpu_limit(25)
\* are one for each read that is waiting with its boost taken, so at most one
\* per read, and none for a reader that is not inside a read.
C14_CpuLimitBalanced ==
    /\ cpu_limit = Cardinality({s \in Streams : rd[s].cpu_limited})
    /\ \A s \in Streams :
          rd[s].cpu_limited => rd[s].pc \in {"read_loop", "read_sleep", "freed"}

\* a read that had to wait, and so took the boost, has been ended by the
\* error of its stream
C14_Witness ==
    /\ rd[1].pc = "idle" /\ rd[1].ret = "AVERROR_EOF"
    /\ rd[1].buf_size >= 1
    /\ stream[1].error /\ ~stream[1].quit_request
    /\ stream[1].ready /\ stream[1].read_head < stream[1].len
    /\ ~dec.interrupt
    /\ cpu_limit = 0

\* ------------------------------------------------------------------
\* Claims on the answers of the origin
\* ------------------------------------------------------------------
\* the answer kept in the history is a failure: the request failed, the status
\* is not a success, or (whole mode) the body is empty
FetchFailed ==
    /\ ut.call.op = "fetch"
    /\ \/ ut.call.result.fail
       \/ ~status_code_is_success(ut.call.result.status_code)
       \/ ut.call.pre.whole_download /\ Len(ut.call.data) = 0
\* what a failed fetch leaves: error, the flag of its status code and no
\* other, the cache and ready as they were
FailureMapped ==
    LET c == ut.call
        st == stream[c.s]
        code == c.result.status_code
    IN  /\ st.error
        /\ st.livestream_eof
              <=> code \in {HTTP_STATUS_CODE_NO_CONTENT, HTTP_STATUS_CODE_NOT_FOUND}
        /\ st.livestream_private <=> code = HTTP_STATUS_CODE_FORBIDDEN
        /\ st.downloaded_data = c.pre.downloaded_data
        /\ st.ready = c.pre.ready

\* C15: a failed fetch sets error, sets livestream_eof as well on status 204
\* or 404 and livestream_private as well on status 403, sets neither on any
\* other failure, inserts no block and does not set ready.
C15_FailureMapping == FetchFailed => FailureMapped

\* the answer kept in the history is that of a ranged fetch on a stream
\* already ready, with a body of another length than the window asked for
RangedBodyOffSize ==
    /\ ut.call.op = "fetch"
    /\ ~ut.call.pre.whole_download
    /\ ut.call.pre.ready
    /\ Len(ut.call.data) # ut.call.expected_len

\* C16: a ranged fetch on a ready stream that returns a body of another
\* length than end - start sets error and inserts nothing: cache, len and
\* block_num are as before.
C16_SizeDiscrepancy ==
    RangedBodyOffSize =>
        LET st == stream[ut.call.s]
        IN  /\ st.error
            /\ st.downloaded_data = ut.call.pre.downloaded_data
            /\ st.len = ut.call.pre.len
            /\ st.block_num = ut.call.pre.block_num

\* the request succeeded and brought a body longer than the window, for a
\* stream with a block cached
C16_Witness ==
    /\ RangedBodyOffSize
    /\ ~ut.call.result.fail
    /\ Len(ut.call.data) > ut.call.expected_len
    /\ Resident(ut.call.s) # {}
    /\ stream[ut.call.s].error

\* the answer kept in the history is that of a whole-mode fetch that
\* succeeded, with x-head-seqnum or x-sequence-num absent or not a number
WholeHeaderBad ==
    /\ ut.call.op = "fetch"
    /\ ut.call.pre.whole_download
    /\ ~ut.call.result.fail
    /\ status_code_is_success(ut.call.result.status_code)
    /\ Len(ut.call.data) > 0
    /\ ~ut.call.result.head_seqnum \/ ~ut.call.result.sequence_num

\* C17: a successful whole-mode fetch without a well-formed x-head-seqnum and
\* x-sequence-num sets error, inserts no block, does not set len and
\* block_num, and leaves ready false.
C17_WholeHeaderError ==
    WholeHeaderBad =>
        LET st == stream[ut.call.s]
        IN  /\ st.error
            /\ st.downloaded_data = EmptyMap
            /\ st.len = ut.call.pre.len
            /\ st.block_num = ut.call.pre.block_num
            /\ ~st.ready

\* x-head-seqnum was right and x-sequence-num was not
C17_Witness ==
    /\ WholeHeaderBad
    /\ ut.call.result.head_seqnum
    /\ stream[ut.call.s].error
    /\ dl.pc = "loop"

\* len and block_num do not change on a stream that is ready
LenFixedOnceReady ==
    \A s \in Streams :
        stream[s].ready => /\ stream'[s].len = stream[s].len
                           /\ stream'[s].block_num = stream[s].block_num
\* the fetch kept in the history has made its stream ready, and it is one
\* that wrote len and block_num: a whole-mode fetch, or a ranged one whose
\* Content-Range held a '/' and a number to its end
ReadyAfterLenWritten ==
    (/\ ut.call.op = "fetch"
     /\ ~ut.call.pre.ready
     /\ stream[ut.call.s].ready)
    => \/ ut.call.pre.whole_download
       \/ ut.call.result.content_range = "ok"

\* C18: len and block_num of a stream are written before its ready is set
\* and never afterwards, so that whoever reads ready = true then reads the
\* final len and block_num.
C18_LenBeforeReady ==
    /\ []ReadyAfterLenWritten
    /\ [][LenFixedOnceReady]_vars

\* ------------------------------------------------------------------
\* Claims on the reader and the downloader running together
\* ------------------------------------------------------------------
\* the blocks of the range the read running on s has found available
ReadRange(s) ==
    BlocksOfRange(stream[s].read_head, ReadSize(stream[s], rd[s].buf_size))

\* C19: between the is_data_available that found the range of a read
\* available and the get_data that follows, no set_data of the downloader
\* evicts a block of the range: get_data finds every block resident and its
\* assertions hold.
C19_AvailableStaysResident ==
    \A s \in Streams :
        /\ rd[s].pc # "assert"
        /\ rd[s].pc = "read_get" => ReadRange(s) \subseteq Resident(s)

\* the read has found its range available, and a set_data that found the
\* range resident and the cache full has evicted a block since
C19_Witness ==
    /\ rd[1].pc = "read_get"
    /\ ReadRange(1) # {}
    /\ last_set.s = 1
    /\ last_set.read_head = stream[1].read_head
    /\ ReadRange(1) \subseteq last_set.pre
    /\ Cardinality(last_set.pre) = MAX_CACHE_BLOCKS
    /\ last_set.block \notin last_set.pre
    /\ last_set.post = Resident(1)

\* ------------------------------------------------------------------
\* Claims on the locks
\* ------------------------------------------------------------------
\* where a thread is while an HTTP fetch of its own is in progress or while
\* it sleeps
FetchingOrSleeping ==
    {"http_whole", "http_ranged", "sleep", "read_sleep", "seek_sleep"}
\* where a thread is between the taking and the release of each mutex
InStreamsLock == {"select", "scan", "in_add_stream"}
InDataLock ==
    {"in_set_data_whole", "in_set_data_ranged", "in_is_data_available", "in_get_data",
     "in_observe"}

\* C20: no thread is in an HTTP fetch or in a sleep while it holds
\* streams_lock or downloaded_data_lock, and a thread holds a mutex only
\* between the taking and the release inside one operation: on every path
\* the operation has released it when it ends.
C20_LocksNotHeldAcrossWaits ==
    \A t \in Threads :
        /\ lock.pc[t] \in FetchingOrSleeping =>
              lock.streams_lock # t /\ lock.downloaded_data_lock # t
        /\ lock.streams_lock = t <=> lock.pc[t] \in InStreamsLock
        /\ lock.downloaded_data_lock = t <=> lock.pc[t] \in InDataLock

\* the downloader is in a fetch after it took and released streams_lock,
\* which add_stream holds meanwhile
C20_Witness ==
    /\ lock.pc["downloader"] = "http_ranged"
    /\ lock.streams_lock = "adder"

\* where a thread is while it reads or writes downloaded_data: inside
\* set_data, is_data_available, get_data, get_download_percentage and
\* get_buffering_progress_bar, and in the two scans of the downloader
MapAccess == InDataLock \cup {"scan", "block_reading"}

\* C21: a thread that reads or writes a stream's downloaded_data (the reader,
\* an observer, the downloader, its scan for the first block that is not
\* downloaded included) holds downloaded_data_lock while it does.
C21_MapAccessUnderLock ==
    \A t \in Threads : lock.pc[t] \in MapAccess => lock.downloaded_data_lock = t

\* the same for the cache operations alone, the downloader's scans left out
MapAccessByOperationsUnderLock ==
    \A t \in Threads : lock.pc[t] \in InDataLock => lock.downloaded_data_lock = t

\* ------------------------------------------------------------------
\* Claims on the life of the downloader thread and of its streams
\* ------------------------------------------------------------------
\* once thread_exit_reqeusted is set the downloader thread returns
ExitLeavesLoop == thread_exit_requested ~> dl.pc = "exited"

\* C22: once thread_exit_requested is true the downloader thread leaves its
\* loop (a fetch in progress returning), and once it has returned every
\* stream in a slot has quit_request set, the streams added by add_stream
\* while the thread was shutting down included.
C22_ExitMarksEveryStream ==
    dl.pc = "exited" =>
        \A i \in Slots : streams[i] # NULL => stream[streams[i]].quit_request

\* a stream in a slot with quit_request set is in the end deleted and its
\* slot NULL
QuitIsReaped ==
    \A s \in Streams :
        (InSlot(s) /\ stream[s].quit_request) ~> (stream[s].freed /\ ~InSlot(s))
\* a step deletes no stream but one with quit_request set
OnlyQuitIsDeleted ==
    \A s \in Streams : (stream'[s].freed /\ ~stream[s].freed) => stream[s].quit_request
\* the stream the downloader fetches for was not deleted by the pass that
\* selected it
SelectedNotDeleted ==
    dl.pc \in {"http", "whole"} =>
        /\ ~stream[dl.cur_stream].freed
        /\ streams[dl.cur_stream_index] = dl.cur_stream

\* C23: while the downloader keeps running, a stream with quit_request set
\* is in the end deleted and its slot set to NULL, whatever its error,
\* suspend_request and ready and whatever streams that are not ready lie in
\* lower slots; the downloader deletes only streams with quit_request set,
\* and never fetches for a stream the same pass has deleted.
C23_QuitEventuallyReaped ==
    /\ QuitIsReaped
    /\ [][OnlyQuitIsDeleted]_vars
    /\ []SelectedNotDeleted

\* the stream of the second slot was deleted in error and suspended and
\* before it was ready, while the stream of the first slot stays
C23_Witness ==
    /\ stream[2].freed /\ stream[2].error /\ stream[2].suspend_request /\ ~stream[2].ready
    /\ Len(streams) = 2 /\ streams[1] = 1 /\ streams[2] = NULL
    /\ ~stream[1].quit_request

\* ------------------------------------------------------------------
\* Claims on whole-mode streams and on the observers
\* ------------------------------------------------------------------
\* C24: once a whole-mode fetch has set ready every block in [0, block_num)
\* of the stream is resident (so that every read in range finds its bytes),
\* bodies of more than MAX_CACHE_BLOCKS blocks included.
C24_WholeAllResident ==
    \A s \in Streams :
        (stream[s].whole_download /\ stream[s].ready /\ ~stream[s].freed) =>
            \A b \in 0..(stream[s].block_num - 1) : b \in Resident(s)

\* the same for the first MAX_CACHE_BLOCKS blocks of the body while the
\* cursor has not moved, with the bytes of the body in them
WholeKeepsFirstBlocks ==
    \A s \in Streams :
        (stream[s].whole_download /\ stream[s].ready /\ ~stream[s].freed
            /\ stream[s].read_head = 0) =>
            \A b \in 0..(MinOf(stream[s].block_num, MAX_CACHE_BLOCKS) - 1) :
                /\ b \in Resident(s)
                /\ stream[s].downloaded_data[b]
                      = OriginRange(s, b * BLOCK_SIZE,
                                    MinOf((b + 1) * BLOCK_SIZE, stream[s].len))

\* the sum of the lengths of the blocks of a map
RECURSIVE SumLen(_)
SumLen(dd) ==
    IF DOMAIN dd = {} THEN 0
    ELSE LET k == Min(DOMAIN dd) IN Len(dd[k]) + SumLen(MapErase(dd, k))

\* C25: get_download_percentage() is the sum of the lengths of the resident
\* blocks times 100 over len: it is 100 when every block of the resource is
\* resident and never more than 100, also when len is no multiple of
\* BLOCK_SIZE and the short last block is resident.
C25_PercentageOfBytes ==
    ut.call.op = "get_download_percentage" =>
        LET st == stream[1]
            res == ut.call.res
        IN  /\ res.num * st.len = SumLen(st.downloaded_data) * 100 * res.den
            /\ res.num <= 100 * res.den
            /\ Resident(1) = 0..(st.block_num - 1) => res.num = 100 * res.den

\* the same while no short last block is resident
PercentageOfFullBlocks ==
    (/\ ut.call.op = "get_download_percentage"
     /\ \A k \in Resident(1) : Len(stream[1].downloaded_data[k]) = BLOCK_SIZE)
    => LET st == stream[1]
           res == ut.call.res
       IN  /\ res.num * st.len = SumLen(st.downloaded_data) * 100 * res.den
           /\ res.num <= 100 * res.den
           /\ Resident(1) = 0..(st.block_num - 1) => res.num = 100 * res.den

\* ------------------------------------------------------------------
\* Claims on the order of the fetches
\* ------------------------------------------------------------------
\* the blocks of the forward window of the stream's cursor are all cached
WindowCached(s) == Window(stream[s], stream[s].read_head) \subseteq Resident(s)
\* the request in progress is for the lowest block at or after the cursor
\* block of the backup that is not resident
RequestIsFirstMissing ==
    dl.pc = "http" =>
        /\ dl.block_reading \notin Resident(dl.cur_stream)
        /\ \A b \in (dl.read_head \div BLOCK_SIZE)..(dl.block_reading - 1) :
              b \in Resident(dl.cur_stream)
        /\ ~stream[dl.cur_stream].ready =>
              /\ dl.block_reading = stream[dl.cur_stream].read_head \div BLOCK_SIZE
              /\ ut.order = <<dl.block_reading>>
\* the requests so far were for blocks of strictly ascending index
AscendingOrder ==
    \A i \in 1..Len(ut.order), j \in 1..Len(ut.order) : i < j => ut.order[i] < ut.order[j]
\* a pass that selects nothing finds the forward window cached
IdleOnlyWhenCached ==
    (/\ dl.pc = "loop"
     /\ InSlot(1)
     /\ stream[1].ready
     /\ Select(streams, stream, ReadHeads).cur = NULL)
    => WindowCached(1)

\* C26: for one ranged stream, a sound origin and a cursor that only moves
\* forward, the first request is for the block of read_head, every request
\* is for the lowest block from the cursor block on that is not resident,
\* the requests are in strictly ascending block order, and the downloader
\* goes on until the blocks from the cursor block to the end of the forward
\* window or of the resource are all cached.
C26_AscendingFetchOrder ==
    /\ []RequestIsFirstMissing
    /\ []AscendingOrder
    /\ []IdleOnlyWhenCached
    /\ (InSlot(1) /\ stream[1].ready) ~> WindowCached(1)

\* the cursor has moved to the last block, which was requested third, after
\* the block of the first cursor and the block after it
C26_Witness ==
    /\ Len(ut.order) = 3
    /\ ut.order[3] = stream[1].block_num - 1
    /\ stream[1].read_head \div BLOCK_SIZE = stream[1].block_num - 1
    /\ WindowCached(1)

\* ------------------------------------------------------------------
\* Claims on readers of dead streams
\* ------------------------------------------------------------------
\* the callback on stream s is in its wait loop: a read that has found its
\* range not available, or a seek on a stream that is not ready
Waiting(s) ==
    \/ rd[s].pc = "read_sleep"
    \/ rd[s].pc = "read_loop" /\ rd[s].cpu_limited
    \/ rd[s].pc = "seek_loop" /\ ~stream[s].ready
Dead(s) == stream[s].error \/ stream[s].quit_request
\* the step returns from the wait: EOF from a read and -1 from a seek, with
\* read_head and the cache as they were
ReturnsDead(s) ==
    /\ rd'[s].pc = "idle"
    /\ IF rd[s].pc = "seek_loop"
       THEN rd'[s].ret = "seek" /\ rd'[s].val = 0 - 1
       ELSE rd'[s].ret = "AVERROR_EOF"
    /\ stream'[s].read_head = stream[s].read_head
    /\ stream'[s].downloaded_data = stream[s].downloaded_data
\* a step of the callback waiting on a dead stream s returns so, or is the
\* one turn of the read loop that leads to the test of the flags
DeadEndsWait(s) ==
    (Waiting(s) /\ Dead(s) /\ rd'[s].pc # rd[s].pc) =>
        \/ ReturnsDead(s)
        \/ rd[s].pc = "read_loop" /\ rd'[s].pc = "read_sleep"

\* C27: a read or a seek before ready that waits on a stream whose error or
\* quit_request has become true returns within a bounded number of turns of
\* its loop, the read with EOF and the seek with -1, with read_head and the
\* cache unchanged.
C27_DeadStreamEndsWait == [][\A s \in Streams : DeadEndsWait(s)]_vars

\* the same for the callbacks of streams that have not been deleted, at the
\* test of the flags after the usleep
DeadEndsWaitAtTest ==
    [][\A s \in Streams :
          (rd[s].pc \in {"read_sleep", "seek_loop"} /\ ~stream[s].freed) => DeadEndsWait(s)]_vars

\* ------------------------------------------------------------------
\* Claims on the slots
\* ------------------------------------------------------------------
NilSlots == {i \in Slots : streams[i] = NULL}
\* the step is an add_stream of stream s
Adds(s) == rd'[s].added /\ ~rd[s].added
\* the new stream goes to the lowest NULL slot, or to a new last slot when
\* there is none, and every other slot is left as it was
AddsToLowestNil ==
    \A s \in Streams :
        Adds(s) =>
            LET index == IF NilSlots # {} THEN Min(NilSlots) ELSE Len(streams) + 1
            IN  /\ Len(streams') = (IF NilSlots # {} THEN Len(streams) ELSE Len(streams) + 1)
                /\ streams'[index] = s
                /\ \A i \in Slots : i # index => streams'[i] = streams[i]
\* no step makes the vector shorter, and none moves a stream to another slot
SlotsStay ==
    /\ Len(streams') >= Len(streams)
    /\ \A i \in Slots : streams'[i] \in {streams[i], NULL} \/ streams[i] = NULL
\* a stream that was added and is not deleted is in exactly one slot, and no
\* other stream is in any
OneSlotEach ==
    \A s \in Streams :
        Cardinality({i \in Slots : streams[i] = s})
            = (IF rd[s].added /\ ~stream[s].freed THEN 1 ELSE 0)

C29_NoDeleteUnderReader ==
    \A s \in Streams :
        /\ stream[s].freed => rd[s].pc = "idle"
        /\ rd[s].pc # "freed"

\* a selection pass run now selects a ready ranged stream for which the fetch
\* phase finds the same block as the pass, a block of the resource
FetchPhaseAgrees ==
    dl.pc = "loop" =>
        LET sel == Select(streams, stream, ReadHeads)
        IN  sel.cur # NULL =>
                LET st == stream[streams[sel.cur]]
                    read_head_block == ReadHeads[sel.cur] \div BLOCK_SIZE
                IN  (st.ready /\ ~st.whole_download) =>
                        /\ BlockReading(st, ReadHeads[sel.cur])
                              = FirstNotDownloaded(st, read_head_block, read_head_block)
                        /\ BlockReading(st, ReadHeads[sel.cur]) < st.block_num
\* a tick of the downloader that ends without a request sets no error
NoErrorWithoutRequest ==
    (dl.pc = "loop" /\ dl'.pc = "loop") =>
        \A s \in Streams : stream'[s].error = stream[s].error

\* C30: the branch `trying to read beyond the end of the stream` is never
\* taken: for the stream a selection pass selects, the block the fetch phase
\* computes is the first block not downloaded that the pass found and is
\* below block_num, whatever the reader seeks and reads meanwhile, and the
\* branch sets no error.
C30_NoReadBeyondEnd ==
    /\ []FetchPhaseAgrees
    /\ [][NoErrorWithoutRequest]_vars

\* a request on a ready stream for a block after the cursor block of the
\* backup, while the reader has moved read_head since the backup
C30_Witness ==
    /\ dl.pc = "http"
    /\ stream[dl.cur_stream].ready /\ ~stream[dl.cur_stream].whole_download
    /\ dl.block_reading > dl.read_head \div BLOCK_SIZE
    /\ stream[dl.cur_stream].read_head # dl.read_head

\* ------------------------------------------------------------------
\* Claims on the cursor block
\* ------------------------------------------------------------------
\* the cursor block at the time of the latest set_data call
CursorBlockOfSet == last_set.read_head \div BLOCK_SIZE

\* C31: a set_data call never erases the block of index read_head /
\* BLOCK_SIZE, read_head taken at the time of the call, whether that block
\* was resident before or is the block stored; so a ranged fetch that stores
\* the missing cursor block leaves it resident.
C31_CursorBlockKept ==
    last_set.s # NULL =>
        (CursorBlockOfSet \in Stored => CursorBlockOfSet \in last_set.post)

\* a fetch stored the missing cursor block into a full cache, and the block
\* erased was another
C31_Witness ==
    /\ last_set.s # NULL
    /\ dl.pc = "loop"
    /\ ~stream[last_set.s].whole_download
    /\ Cardinality(last_set.pre) = MAX_CACHE_BLOCKS
    /\ last_set.block = CursorBlockOfSet
    /\ last_set.block \notin last_set.pre
    /\ last_set.block \in Resident(last_set.s)

=============================================================================
